---- MODULE Spec2Model ----
(***************************************************************************)
(* Session registry (AgentManager) and polling coordinator (SessionMonitor)*)
(* of the agent session dashboard, with the session host (tmux) and the    *)
(* transcript store as environment.                                        *)
(*                                                                         *)
(* Strings are sequences of one-character strings.  Session objects have   *)
(* identity: the registry and the poll thread's snapshots hold object ids  *)
(* into the heap `objs`; the callback history names sessions by host name. *)
(***************************************************************************)
EXTENDS Integers, Sequences, FiniteSets, TLC

\* ------------------------------------------------------------------ bounds
\* number of heap cells for SessionInfo objects
MaxObjs == 4

\* ------------------------------------------------------- config/defaults.py
SESSION_PREFIX == <<"c", "l", "a", "u", "d", "e", "_">>
\* the glyph U+276F is written "U276F", U+25CF "U25CF", U+25CB "U25CB"
IDLE_PROMPT_MARKERS == {<<"U276F">>, <<"$">>, <<">">>}
PROMPT_KEYWORDS == {<<"?">>}
\* the base port, and 0 for a port or pid that is None
TTYD_BASE_PORT == 7681
CHOICE_PREFIXES == {<<"1", ".">>, <<"2", ".">>, <<"3", ".">>, <<"4", ".">>,
                    <<"U25CF">>, <<"U25CB">>, <<"-", " ", "[">>}

\* ------------------------------------------------------------ SessionState
IDLE == "idle"
WORKING == "working"
WAITING_INPUT == "waiting_input"
ERROR == "error"
STOPPED == "stopped"
SessionState == {IDLE, WORKING, WAITING_INPUT, ERROR, STOPPED}

\* Python's None
None == "None"

\* ----------------------------------------------------------- str helpers
IsSpace(c) == c \in {" ", "\n", "\t", "\r"}

RECURSIVE LStrip(_)
LStrip(s) == IF s # <<>> /\ IsSpace(Head(s)) THEN LStrip(Tail(s)) ELSE s

RECURSIVE RStrip(_)
RStrip(s) ==
    IF s # <<>> /\ IsSpace(s[Len(s)]) THEN RStrip(SubSeq(s, 1, Len(s) - 1)) ELSE s

\* str.strip()
Strip(s) == RStrip(LStrip(s))

\* str.startswith / str.endswith / `sub in s`
StartsWith(s, p) == Len(s) >= Len(p) /\ SubSeq(s, 1, Len(p)) = p
EndsWith(s, p) == Len(s) >= Len(p) /\ SubSeq(s, Len(s) - Len(p) + 1, Len(s)) = p
Contains(s, p) == \E i \in 0..(Len(s) - Len(p)) : SubSeq(s, i + 1, i + Len(p)) = p

\* str.split("\n"): always at least one (possibly empty) line
RECURSIVE SplitLines(_, _)
SplitLines(s, acc) ==
    IF s = <<>> THEN <<acc>>
    ELSE IF Head(s) = "\n" THEN <<acc>> \o SplitLines(Tail(s), <<>>)
    ELSE SplitLines(Tail(s), Append(acc, Head(s)))

\* seq[-n:]
LastN(seq, n) == IF Len(seq) <= n THEN seq ELSE SubSeq(seq, Len(seq) - n + 1, Len(seq))

MaxOf(S) == CHOOSE x \in S : \A y \in S : y <= x

\* -------------------------------------------- Tier 2: raw-output heuristic
\* a Tier 2 that accepts an idle marker at the end of any line of the window
IdleAnywhere(output) ==
    IF Strip(output) = <<>> THEN WORKING
    ELSE
      LET lines == SplitLines(Strip(output), <<>>)
          win == LastN(LastN(lines, 15), 8)
          idle == \E i \in 1..Len(win), m \in IDLE_PROMPT_MARKERS :
                     EndsWith(Strip(win[i]), m)
          asks == \E i \in 1..Len(win) :
                    LET stripped == Strip(win[i]) IN
                    \/ \E p \in CHOICE_PREFIXES : StartsWith(stripped, p)
                    \/ /\ \E kw \in PROMPT_KEYWORDS : Contains(stripped, kw)
                       /\ EndsWith(stripped, <<"?">>)
      IN IF idle THEN IDLE ELSE IF asks THEN WAITING_INPUT ELSE WORKING

\* a classification that reports an error for output without visible text
ErrorWhenBlank(output) == IF Strip(output) = <<>> THEN ERROR ELSE IDLE

DetectStateFromOutput(output) ==
    IF Strip(output) = <<>> THEN WORKING
    ELSE
      LET lines == SplitLines(Strip(output), <<>>)
          tail == LastN(lines, 15)
          win == LastN(tail, 8)
          nonblank == {i \in 1..Len(win) : Strip(win[i]) # <<>>}
          idle == /\ nonblank # {}
                  /\ \E m \in IDLE_PROMPT_MARKERS :
                        EndsWith(Strip(win[MaxOf(nonblank)]), m)
          asks == \E i \in 1..Len(win) :
                    LET stripped == Strip(win[i]) IN
                    \/ \E p \in CHOICE_PREFIXES : StartsWith(stripped, p)
                    \/ /\ \E kw \in PROMPT_KEYWORDS : Contains(stripped, kw)
                       /\ EndsWith(stripped, <<"?">>)
      IN IF idle THEN IDLE ELSE IF asks THEN WAITING_INPUT ELSE WORKING

\* -------------------------------------------- Tier 1: transcript inspection
\* A transcript is NoLog (no file resolved) or the records of the resolved
\* file, each [type, content]; content is a sequence of blocks [type, name].
NoLog == [found |-> FALSE, records |-> <<>>]
Transcript(records) == [found |-> TRUE, records |-> records]
UserRec == [type |-> "user", content |-> <<>>]
AssistantRec(blocks) == [type |-> "assistant", content |-> blocks]
OtherRec == [type |-> "system", content |-> <<>>]
ToolUse(n) == [type |-> "tool_use", name |-> n]
TextBlock == [type |-> "text", name |-> None]
\* a line json.loads rejects: the scan skips it (lines 124-125)
BadLine == [type |-> "invalid", content |-> <<>>]

\* a Tier 1 that never resolves a transcript
TranscriptIgnored(transcript) == None

\* a Tier 1 that looks for the sub-task block before the question block
TaskBeforeAsk(transcript) ==
    IF ~transcript.found THEN None
    ELSE
      LET t == transcript.records
          turns == {i \in 1..Len(t) : t[i].type \in {"user", "assistant"}}
          last_type == IF turns = {} THEN None ELSE t[MaxOf(turns)].type
          last_content == IF last_type = "assistant" THEN t[MaxOf(turns)].content ELSE <<>>
          has(n) == \E i \in 1..Len(last_content) :
                       last_content[i].type = "tool_use" /\ last_content[i].name = n
      IN IF last_type = "user" THEN WORKING
         ELSE IF last_type = "assistant"
              THEN IF has("Task") THEN WORKING
                   ELSE IF has("AskUserQuestion") THEN WAITING_INPUT
                   ELSE IDLE
         ELSE IDLE

DetectStateFromTranscript(transcript) ==
    IF ~transcript.found THEN None
    ELSE
      LET t == transcript.records
          turns == {i \in 1..Len(t) : t[i].type \in {"user", "assistant"}}
          last_type == IF turns = {} THEN None ELSE t[MaxOf(turns)].type
          last_content == IF last_type = "assistant" THEN t[MaxOf(turns)].content ELSE <<>>
          has(n) == \E i \in 1..Len(last_content) :
                       last_content[i].type = "tool_use" /\ last_content[i].name = n
      IN IF last_type = "user" THEN WORKING
         ELSE IF last_type = "assistant"
              THEN IF has("AskUserQuestion") THEN WAITING_INPUT
                   ELSE IF has("Task") THEN WORKING
                   ELSE IDLE
         ELSE IDLE

\* ------------------------------------------------- web dashboard: liveState
\* web/dashboard.py parse_session lines 258-364: the live state the dashboard
\* shows for a transcript; last_type is the type of the last line that
\* parses, whatever that type is
LiveState(records) ==
    LET parsed == SelectSeq(records, LAMBDA r : r # BadLine)
        last_type == IF parsed = <<>> THEN None ELSE parsed[Len(parsed)].type
        last_content == IF last_type = "assistant" THEN parsed[Len(parsed)].content
                        ELSE <<>>
        has(n) == \E i \in 1..Len(last_content) :
                     last_content[i].type = "tool_use" /\ last_content[i].name = n
    IN IF last_type = "user" THEN "working"
       ELSE IF last_type = "assistant"
            THEN IF has("AskUserQuestion") THEN "choice"
                 ELSE IF has("Task") THEN "working"
                 ELSE "idle"
       ELSE "idle"

\* --------------------------------------------------------------- universe
\* the projects that have host sessions; the caller thread creates and kills
\* sessions of CallerProjects, the others come and go at the host on their own
PROJECTS == {<<"a">>, <<"b">>}
CallerProjects == {<<"a">>}
HostName(project_name) == SESSION_PREFIX \o project_name
Managed == {HostName(p) : p \in PROJECTS}
\* a host session of another tool: holds the prefix, does not start with it
Foreign == <<"x">> \o SESSION_PREFIX \o <<"a">>
HostNames == Managed \cup {Foreign}
\* the order in which the host enumerates its sessions (tmux sorts by name)
HostOrder == <<HostName(<<"a">>), HostName(<<"b">>), Foreign>>

PromptPane == <<"o", "k", "\n", "U276F", " ">>
ChoicePane == <<"1", ".", " ", "A", "\n", "2", ".", " ", "B", "\n">>
Panes == {<<>>, PromptPane, ChoicePane}
AskLog == Transcript(<<UserRec, AssistantRec(<<ToolUse("AskUserQuestion")>>)>>)
UserLog == Transcript(<<UserRec>>)
DoneLog == Transcript(<<UserRec, AssistantRec(<<TextBlock>>), OtherRec>>)
\* what the environment may show for one session: transcript and pane
Evidence == {[log |-> NoLog, pane |-> <<>>],
             [log |-> NoLog, pane |-> PromptPane],
             [log |-> NoLog, pane |-> ChoicePane],
             [log |-> AskLog, pane |-> PromptPane],
             [log |-> UserLog, pane |-> PromptPane],
             [log |-> DoneLog, pane |-> ChoicePane]}

\* the evidence the environment moves between where it is kept in the state
ObsEvidence == {[log |-> NoLog, pane |-> <<>>],
                [log |-> NoLog, pane |-> PromptPane],
                [log |-> AskLog, pane |-> PromptPane]}

\* working directories: the one create_session is given, and the one the
\* host reports for a pane (pane_current_path)
CallerDir == <<"/", "x">>
PaneDir == <<"/", "w">>

Ids == 1..MaxObjs

VARIABLES
    host,          \* names of the sessions alive at the session host
    hostUp,        \* the host answers enumerations (server.sessions does not raise)
    pane,          \* pane output of each managed host session, where it is kept
    log,           \* transcript resolved for each managed session, where it is kept
    sessions,      \* AgentManager._sessions: insertion-ordered <<[key, obj]>>
    objs,          \* heap of SessionInfo objects, NoObj for a free cell
    pc,            \* position of the poll thread inside _loop/_poll_all
    new_sessions,  \* _poll_all's local new_sessions
    todo,          \* the evaluation loop: the loop variable `session` (0 before
                   \* the first iteration), then the snapshot's objects to come
    cb,            \* history: on_state_change invocations of the cycle in progress
    syncStable,    \* history: host session set unchanged since sync_sessions began
    syncQuiet,     \* history: no kill_session removal since sync_sessions began
    cpc,           \* position of the caller thread (create_session / kill_session)
    carg,          \* argument of the caller thread's call in progress
    running,       \* SessionMonitor._running
    thread,        \* SessionMonitor._thread: a thread, or 0 for None
    lpc,           \* position of each thread that runs (or ran) _loop
    spc,           \* position of each thread that calls start() or stop()
    lock,          \* AgentManager._lock: "free", or the thread that holds it
    scan,          \* the names a discovery or removal pass has yet to visit
    gone,          \* sync_sessions' local gone, as far as it is built
    next_ttyd_port,\* AgentManager._next_ttyd_port
    procs,         \* bridge processes spawned so far; the pid is the index
    tpc,           \* the call in progress of each thread that uses the registry
    files,         \* the transcript files under ~/.claude/projects, by path
    recent,        \* the paths, the most recently modified first
    cache,         \* SessionMonitor._transcript_cache, by host session name
    look           \* history: the last _find_transcript call and, by key, the
                   \* cached paths found invalid and not selected by a scan since

\* the registry, the host and the poll cycle
reg == <<host, hostUp, pane, log, sessions, objs, pc, new_sessions, todo, cb,
         syncStable, syncQuiet, cpc, carg>>

\* the polling coordinator
mon == <<running, thread, lpc, spc>>

\* the lock, the remote-access bridges and the calls of the user threads
ops == <<lock, scan, gone, next_ttyd_port, procs, tpc>>

vars == <<host, hostUp, pane, log, sessions, objs, pc, new_sessions, todo, cb,
          syncStable, syncQuiet, cpc, carg, running, thread, lpc, spc,
          lock, scan, gone, next_ttyd_port, procs, tpc, files, recent, cache, look>>

\* the transcript files and the monitor's cursor into them
fsv == <<files, recent, cache, look>>

\* ------------------------------------------------- coordinator universe
\* threads that run _loop, and threads that call start() and stop()
MaxThreads == 3
Threads == 1..MaxThreads
Callers == {"ui", "other"}

\* positions of a caller: in no call, or inside start() or stop()
Idle == [at |-> "idle", t |-> 0]
At(where) == [at |-> where, t |-> 0]
Joining(t) == [at |-> "join", t |-> t]

\* tray_app line 88: the application starts the coordinator once; the poll
\* thread (thread 1, whose position inside the cycle is pc) is running
MonitorStarted ==
    /\ running = TRUE
    /\ thread = 1
    /\ lpc = [t \in Threads |-> IF t = 1 THEN "poll" ELSE "none"]
    /\ spc = [c \in Callers |-> Idle]

\* ---------------------------------------------------- user-thread universe
\* a thread in no call; `ret` is how its last call ended ("" before any),
\* `name` the session that call was about, `port` the port it returned, 0
\* for None
NoCall == [op |-> "none", at |-> "idle", name |-> <<>>, port |-> 0, pid |-> 0,
           tmp |-> 0, ret |-> "", rest |-> <<>>]

\* ------------------------------------------------------ transcript universe
\* paths of transcript files, and the largest size a file grows to
MaxSize == 2
Paths == {"p", "q"}
PathOrder == <<"p", "q">>

\* no file at a path; a file of `size` whose first user record names `cwd`
\* (<<>> when it has no user record yet)
NoFile == [exists |-> FALSE, size |-> 0, cwd |-> <<>>]
File(size, cwd) == [exists |-> TRUE, size |-> size, cwd |-> cwd]

\* no cache entry for a key; the entry (path, last_size)
NoEntry == [path |-> "", size |-> 0]
Entry(path, size) == [path |-> path, size |-> size]

\* no _find_transcript call was made yet
NoLook == [key |-> <<>>, path |-> "", scanned |-> FALSE,
           stale |-> [n \in Managed |-> {}]]

\* SessionMonitor.__init__ line 39: the cache is empty; no transcript exists
CursorFresh ==
    /\ files = [p \in Paths |-> NoFile]
    /\ recent = PathOrder
    /\ cache = [n \in Managed |-> NoEntry]
    /\ look = NoLook

\* __init__ lines 25-26: the lock is free, the port counter is at the base
\* port, no bridge was spawned, no call is in progress
ManagerFresh ==
    /\ lock = "free"
    /\ scan = <<>>
    /\ gone = <<>>
    /\ next_ttyd_port = TTYD_BASE_PORT
    /\ procs = <<>>
    /\ tpc = [c \in Callers |-> NoCall]

\* ------------------------------------------------------- registry helpers
Keys(sess) == {sess[i].key : i \in 1..Len(sess)}
ObjOf(sess, k) == sess[CHOOSE i \in 1..Len(sess) : sess[i].key = k].obj
SeqRange(q) == {q[i] : i \in 1..Len(q)}

\* a store that adds an entry also for a key that is present
PutAgain(sess, k, o) == Append(sess, [key |-> k, obj |-> o])

\* dict.__setitem__: a new key goes last, an existing key keeps its place
Put(sess, k, o) ==
    IF k \in Keys(sess)
    THEN [i \in 1..Len(sess) |-> IF sess[i].key = k THEN [key |-> k, obj |-> o] ELSE sess[i]]
    ELSE Append(sess, [key |-> k, obj |-> o])

\* del dict[k] for every k in ks
Del(sess, ks) == SelectSeq(sess, LAMBDA e : e.key \notin ks)

\* a free heap cell
NoObj == [name |-> <<>>, tmux_session_name |-> <<>>, state |-> None,
          working_directory |-> <<>>, ttyd_port |-> 0, ttyd_pid |-> 0,
          last_output |-> <<>>]

SessionInfo(project_name, session_name, st, dir) ==
    [name |-> project_name, tmux_session_name |-> session_name,
     state |-> st, working_directory |-> dir, ttyd_port |-> 0, ttyd_pid |-> 0,
     last_output |-> <<>>]

FreeIds(heap) == {i \in Ids : heap[i] = NoObj}
NewId(heap) == CHOOSE i \in FreeIds(heap) : \A j \in FreeIds(heap) : i <= j

\* objects that neither the registry, the snapshot nor `keep` refers to are
\* reclaimed
Collect(heap, sess, td, keep) ==
    LET live == {sess[i].obj : i \in 1..Len(sess)} \cup SeqRange(td) \cup keep
    IN [i \in Ids |-> IF i \in live THEN heap[i] ELSE NoObj]

\* a step that leaves the registry and the snapshot alone reclaims what
\* an earlier step let go
Sweep == objs' = Collect(objs, sessions, todo, {})

\* ------------------------------------------------------------ host boundary
\* _find_tmux_session(name) is not None
FindTmuxSession(name) == hostUp /\ name \in host

\* capture_output(name) when the pane shows `shown`: "" when it cannot be resolved
CaptureOutput(name, shown) == IF FindTmuxSession(name) THEN shown ELSE <<>>

\* list_sessions(): the registry's objects in insertion order
ListSessions == [i \in 1..Len(sessions) |-> sessions[i].obj]

\* get_session(name): the object's id, 0 for None
GetSession(name) == IF name \in Keys(sessions) THEN ObjOf(sessions, name) ELSE 0

\* ---------------------------------------------------------------- discovery
\* a prefix test that accepts the prefix anywhere in the name
HasPrefixAnywhere(name) == Contains(name, SESSION_PREFIX)

\* name.startswith(SESSION_PREFIX)
HasPrefix(name) == StartsWith(name, SESSION_PREFIX)

\* a capture that returns nothing
CapturePaneBlank(panes, name) == <<>>

\* pane.capture_pane() of the host session `name`; a session outside the
\* modelled panes shows nothing
CapturePane(panes, name) == IF name \in DOMAIN panes THEN panes[name] ELSE <<>>

\* a removal pass that takes no session for gone, and one that takes all
GoneNone(sess) == {}
GoneAll(sess) == Keys(sess)

\* _discover_existing_sessions over the host's enumeration `names`, the panes
\* showing `panes`: the registry and heap after adopting, and the adopted names
RECURSIVE Discover(_, _, _, _)
Discover(names, sess, heap, panes) ==
    IF names = <<>> THEN [sess |-> sess, heap |-> heap, new |-> {}]
    ELSE
      LET name == Head(names) IN
      IF ~HasPrefix(name) \/ name \in Keys(sess)
      THEN Discover(Tail(names), sess, heap, panes)
      ELSE
        LET project_name == SubSeq(name, Len(SESSION_PREFIX) + 1, Len(name))
            initial_state == DetectStateFromOutput(CapturePane(panes, name))
            o == NewId(heap)
            info == SessionInfo(project_name, name, initial_state, PaneDir)
            rest == Discover(Tail(names), Put(sess, name, o),
                             [heap EXCEPT ![o] = info], panes)
        IN [rest EXCEPT !.new = @ \cup {name}]

\* server.sessions, in the host's order
Enumerate == SelectSeq(HostOrder, LAMBDA n : n \in host)

\* _discover_existing_sessions: an enumeration that raises adopts nothing
DiscoverExisting(sess, heap, panes) ==
    IF hostUp THEN Discover(Enumerate, sess, heap, panes)
    ELSE [sess |-> sess, heap |-> heap, new |-> {}]

\* ------------------------------------------------------------------- Init
\* AgentManager.__init__ and SessionMonitor.__init__: the registry adopts
\* what the host has, the poll thread is between cycles
Constructed(panes) ==
    /\ hostUp = TRUE
    /\ LET d == DiscoverExisting(<<>>, [i \in Ids |-> NoObj], panes)
       IN sessions = d.sess /\ objs = d.heap
    /\ pc = "sleep"
    /\ new_sessions = {}
    /\ todo = <<>>
    /\ cb = <<>>
    /\ syncStable = TRUE
    /\ syncQuiet = TRUE
    /\ cpc = "idle"
    /\ carg = <<>>
    /\ ManagerFresh
    /\ CursorFresh

Init ==
    /\ host \in {S \cup {Foreign} : S \in SUBSET Managed}
    /\ pane = [n \in Managed |-> <<>>]
    /\ log = [n \in Managed |-> NoLog]
    /\ \E panes \in [Managed -> Panes] : Constructed(panes)
    /\ MonitorStarted

\* ----------------------------------------------------- poll thread: sync
\* _poll_all line 64, sync_sessions line 250: discovery, one step from the
\* host's enumeration to the last adoption
PollSync(panes) ==
    /\ pc = "sleep"
    /\ LET d == DiscoverExisting(sessions, Collect(objs, sessions, todo, {}), panes)
       IN /\ sessions' = d.sess
          /\ objs' = d.heap
          /\ new_sessions' = d.new
    /\ syncStable' = TRUE
    /\ syncQuiet' = TRUE
    /\ pc' = "remove"
    /\ UNCHANGED <<host, hostUp, pane, log, todo, cb, cpc, carg>>
    /\ UNCHANGED mon
    /\ UNCHANGED fsv
    /\ UNCHANGED ops

\* sync_sessions lines 253-257: the registered names the host no longer has
Gone(sess) == {k \in Keys(sess) : ~FindTmuxSession(k)}

\* sync_sessions lines 253-262: mark STOPPED and delete, under the lock
PollRemove ==
    /\ pc = "remove"
    /\ LET names == Gone(sessions)
           marked == [i \in Ids |->
                        IF \E k \in names : ObjOf(sessions, k) = i
                        THEN [objs[i] EXCEPT !.state = STOPPED] ELSE objs[i]]
       IN /\ sessions' = Del(sessions, names)
          /\ objs' = Collect(marked, sessions', todo,
                              {ObjOf(sessions, k) : k \in names})
    /\ pc' = IF new_sessions # {} THEN "notify" ELSE "list"
    /\ syncStable' = TRUE
    /\ syncQuiet' = TRUE
    /\ UNCHANGED <<host, hostUp, pane, log, new_sessions, todo, cb, cpc, carg>>
    /\ UNCHANGED mon
    /\ UNCHANGED fsv
    /\ UNCHANGED ops

\* one on_state_change(session) invocation, recorded by the session's host name
Call(o, kind) == [key |-> objs[o].tmux_session_name, kind |-> kind]

\* a notification pass that takes every session of the snapshot
AppearedAll(snap, names) == snap

\* _poll_all lines 68-69: the sessions of the snapshot named in new_sessions
Appeared(snap, names) ==
    SelectSeq(snap, LAMBDA o : objs[o].tmux_session_name \in names)

\* _poll_all lines 67-70: "appeared" callbacks over a fresh snapshot
PollNotify ==
    /\ pc = "notify"
    /\ LET hit == Appeared(ListSessions, new_sessions)
       IN cb' = cb \o [i \in 1..Len(hit) |-> Call(hit[i], "appeared")]
    /\ pc' = "list"
    /\ new_sessions' = {}
    /\ UNCHANGED <<host, hostUp, pane, log, sessions, todo,
                   syncStable, syncQuiet, cpc, carg>>
    /\ Sweep
    /\ UNCHANGED mon
    /\ UNCHANGED fsv
    /\ UNCHANGED ops

\* _poll_all line 72: the snapshot the evaluation loop iterates
PollList ==
    /\ pc = "list"
    /\ todo' = <<0>> \o ListSessions
    /\ pc' = "check"
    /\ UNCHANGED <<host, hostUp, pane, log, sessions, new_sessions, cb,
                   syncStable, syncQuiet, cpc, carg>>
    /\ Sweep
    /\ UNCHANGED mon
    /\ UNCHANGED fsv
    /\ UNCHANGED ops

\* _poll_all lines 72-81: the loop takes the next session of the snapshot;
\* it skips a STOPPED one and marks a vanished one STOPPED
PollCheck ==
    /\ pc = "check"
    /\ Tail(todo) # <<>>
    /\ todo' = Tail(todo)
    /\ LET o == Head(Tail(todo)) IN
       IF objs[o].state = STOPPED
       THEN /\ pc' = "check"
            /\ cb' = cb
            /\ objs' = Collect(objs, sessions, todo', {})
       ELSE IF ~FindTmuxSession(objs[o].tmux_session_name)
       THEN /\ pc' = "check"
            /\ cb' = Append(cb, Call(o, "stopped"))
            /\ objs' = Collect([objs EXCEPT ![o].state = STOPPED], sessions, todo', {})
       ELSE /\ pc' = "detect"
            /\ cb' = cb
            /\ objs' = Collect(objs, sessions, todo', {})
    /\ UNCHANGED <<host, hostUp, pane, log, sessions, new_sessions,
                   syncStable, syncQuiet, cpc, carg>>
    /\ UNCHANGED mon
    /\ UNCHANGED fsv
    /\ UNCHANGED ops

\* _poll_all line 72, _loop line 60: the snapshot is exhausted, _poll_all
\* returns and the thread sleeps until the next cycle
PollReturn ==
    /\ pc = "check"
    /\ Tail(todo) = <<>>
    /\ todo' = <<>>
    /\ cb' = <<>>
    /\ pc' = "sleep"
    /\ UNCHANGED <<host, hostUp, pane, log, sessions, new_sessions,
                   syncStable, syncQuiet, cpc, carg>>
    /\ Sweep
    /\ UNCHANGED mon
    /\ UNCHANGED fsv
    /\ UNCHANGED ops

\* a detection that classifies the pane and never looks at the transcript
PaneOnly(name, e) == DetectStateFromOutput(CaptureOutput(name, e.pane))

\* _poll_all lines 84-89: Tier 1, then Tier 2 when no transcript was found
Detect(name, e) ==
    LET t1 == DetectStateFromTranscript(e.log)
    IN IF t1 # None THEN t1 ELSE DetectStateFromOutput(CaptureOutput(name, e.pane))

\* a comparison that reports every detection as a change
ChangedAlways(new_state, stored) == TRUE

\* _poll_all line 91: the detected state differs from the stored one
Changed(new_state, stored) == new_state # stored

\* _poll_all lines 84-93: detect from what the environment shows (e),
\* compare, update and notify
PollDetect(e) ==
    /\ pc = "detect"
    /\ LET o == Head(todo)
           new_state == Detect(objs[o].tmux_session_name, e)
       IN IF Changed(new_state, objs[o].state)
          THEN /\ cb' = Append(cb, Call(o, "transition"))
               /\ objs' = Collect([objs EXCEPT ![o].state = new_state], sessions, todo, {})
          ELSE /\ cb' = cb
               /\ objs' = Collect(objs, sessions, todo, {})
    /\ pc' = "check"
    /\ UNCHANGED <<host, hostUp, pane, log, sessions, new_sessions, todo,
                   syncStable, syncQuiet, cpc, carg>>
    /\ UNCHANGED mon
    /\ UNCHANGED fsv
    /\ UNCHANGED ops

\* a host session that ends takes its pane with it: a later session of the
\* same name starts with an empty pane
Blank(n) == [pane EXCEPT ![n] = <<>>]

\* the host's session set changed: noted when sync_sessions is running
Disturb(hostChanged) ==
    syncStable' = IF hostChanged THEN (pc # "remove") ELSE syncStable

\* ------------------------------------------------ caller thread: create
\* create_session lines 34-47: the host spawns the session, or raises when a
\* session of that name exists (the call ends, nothing is registered)
CreateSpawn(project_name) ==
    /\ cpc = "idle"
    /\ LET session_name == HostName(project_name) IN
       IF hostUp /\ session_name \notin host
       THEN /\ host' = host \cup {session_name}
            /\ cpc' = "create"
            /\ carg' = project_name
            /\ Disturb(TRUE)
       ELSE UNCHANGED <<host, cpc, carg, syncStable>>
    /\ UNCHANGED <<hostUp, pane, log, sessions, pc, new_sessions, todo, cb, syncQuiet>>
    /\ Sweep
    /\ UNCHANGED mon
    /\ UNCHANGED fsv
    /\ UNCHANGED ops

\* create_session lines 49-59: build the SessionInfo, insert it under the lock
CreateInsert ==
    /\ cpc = "create"
    /\ FreeIds(Collect(objs, sessions, todo, {})) # {}
    /\ LET session_name == HostName(carg)
           o == NewId(Collect(objs, sessions, todo, {}))
           info == SessionInfo(carg, session_name, WORKING, CallerDir)
       IN /\ sessions' = Put(sessions, session_name, o)
          /\ objs' = Collect([objs EXCEPT ![o] = info], sessions', todo, {})
    /\ cpc' = "idle"
    /\ carg' = <<>>
    /\ UNCHANGED <<host, hostUp, pane, log, pc, new_sessions, todo, cb,
                   syncStable, syncQuiet>>
    /\ UNCHANGED mon
    /\ UNCHANGED fsv
    /\ UNCHANGED ops

\* -------------------------------------------------- caller thread: kill
\* kill_session lines 63-67: find the host session and kill it
KillHost(session_name) ==
    /\ cpc = "idle"
    /\ host' = IF FindTmuxSession(session_name) THEN host \ {session_name} ELSE host
    /\ pane' = IF FindTmuxSession(session_name) THEN Blank(session_name) ELSE pane
    /\ cpc' = "kill"
    /\ carg' = session_name
    /\ Disturb(FindTmuxSession(session_name))
    /\ UNCHANGED <<hostUp, log, sessions, pc, new_sessions, todo, cb, syncQuiet>>
    /\ Sweep
    /\ UNCHANGED mon
    /\ UNCHANGED fsv
    /\ UNCHANGED ops

\* kill_session lines 69-73: mark STOPPED and delete, under the lock
KillRemove ==
    /\ cpc = "kill"
    /\ IF carg \in Keys(sessions)
       THEN LET o == ObjOf(sessions, carg)
            IN /\ sessions' = Del(sessions, {carg})
               /\ objs' = Collect([objs EXCEPT ![o].state = STOPPED],
                                  sessions', todo, {o})
               /\ syncQuiet' = (pc # "remove")
       ELSE /\ UNCHANGED <<sessions, syncQuiet>>
            /\ objs' = Collect(objs, sessions, todo, {})
    /\ cpc' = "idle"
    /\ carg' = <<>>
    /\ UNCHANGED <<host, hostUp, pane, log, pc, new_sessions, todo, cb, syncStable>>
    /\ UNCHANGED mon
    /\ UNCHANGED fsv
    /\ UNCHANGED ops

\* ------------------------------------------------------------ environment
\* another tool starts a host session
HostAppear(n) ==
    /\ n \notin host
    /\ host' = host \cup {n}
    /\ Disturb(TRUE)
    /\ UNCHANGED <<hostUp, pane, log, sessions, pc, new_sessions, todo, cb,
                   syncQuiet, cpc, carg>>
    /\ Sweep
    /\ UNCHANGED mon
    /\ UNCHANGED fsv
    /\ UNCHANGED ops

\* a host session ends on its own or is killed by another tool
HostDisappear(n) ==
    /\ n \in host
    /\ host' = host \ {n}
    /\ pane' = Blank(n)
    /\ Disturb(TRUE)
    /\ UNCHANGED <<hostUp, log, sessions, pc, new_sessions, todo, cb,
                   syncQuiet, cpc, carg>>
    /\ Sweep
    /\ UNCHANGED mon
    /\ UNCHANGED fsv
    /\ UNCHANGED ops

\* the host stops answering: server.sessions raises
HostFail ==
    /\ hostUp
    /\ hostUp' = FALSE
    /\ UNCHANGED <<host, pane, log, sessions, pc, new_sessions, todo, cb,
                   syncStable, syncQuiet, cpc, carg>>
    /\ Sweep
    /\ UNCHANGED mon
    /\ UNCHANGED fsv
    /\ UNCHANGED ops

\* the host answers again
HostRecover ==
    /\ ~hostUp
    /\ hostUp' = TRUE
    /\ UNCHANGED <<host, pane, log, sessions, pc, new_sessions, todo, cb,
                   syncStable, syncQuiet, cpc, carg>>
    /\ Sweep
    /\ UNCHANGED mon
    /\ UNCHANGED fsv
    /\ UNCHANGED ops

\* the agent in a live session writes its transcript and redraws its pane
SetEvidence(n, e) ==
    /\ n \in host
    /\ <<log[n], pane[n]>> # <<e.log, e.pane>>
    /\ log' = [log EXCEPT ![n] = e.log]
    /\ pane' = [pane EXCEPT ![n] = e.pane]
    /\ UNCHANGED <<host, hostUp, sessions, pc, new_sessions, todo, cb,
                   syncStable, syncQuiet, cpc, carg>>
    /\ Sweep
    /\ UNCHANGED mon
    /\ UNCHANGED fsv
    /\ UNCHANGED ops

\* ------------------------------------------------------------------- Next
\* the poll thread; what the panes and transcripts show is an input of each read
Poll ==
    \/ \E panes \in [Managed -> Panes] : PollSync(panes)
    \/ PollRemove
    \/ PollNotify
    \/ PollList
    \/ PollCheck
    \/ \E e \in Evidence : PollDetect(e)
    \/ PollReturn

Caller ==
    \/ \E p \in CallerProjects : CreateSpawn(p)
    \/ CreateInsert
    \/ \E p \in CallerProjects : KillHost(HostName(p))
    \/ KillRemove

Env ==
    \/ \E n \in Managed : HostAppear(n)
    \/ \E n \in Managed : HostDisappear(n)

Next == Poll \/ Caller \/ Env

\* two managed sessions, lifecycle calls for one of them
Spec == Init /\ [][Next]_vars

\* -------------------------------------------------------------- SpecPoll
\* the poll thread and the host alone: no create_session or kill_session
NextPoll == Poll \/ Env

SpecPoll == Init /\ [][NextPoll]_vars

\* -------------------------------------------------------------- SpecConc
\* one managed host session, with lifecycle calls racing the poll thread
CallerHosts == {HostName(p) : p \in CallerProjects}

InitConc ==
    /\ host \in {S \cup {Foreign} : S \in SUBSET CallerHosts}
    /\ pane = [n \in Managed |-> <<>>]
    /\ log = [n \in Managed |-> NoLog]
    /\ \E panes \in [Managed -> Panes] : Constructed(panes)
    /\ MonitorStarted

EnvConc ==
    \/ \E n \in CallerHosts : HostAppear(n)
    \/ \E n \in CallerHosts : HostDisappear(n)

NextConc == Poll \/ Caller \/ EnvConc

SpecConc == InitConc /\ [][NextConc]_vars

\* --------------------------------------------------------------- SpecObs
\* One managed host session whose transcript and pane are kept in `log` and
\* `pane` (changed by SetEvidence) instead of drawn at each read.
Shown(name) == [log |-> log[name], pane |-> pane[name]]

PollSyncObs == PollSync(pane)

PollDetectObs == pc = "detect" /\ PollDetect(Shown(objs[Head(todo)].tmux_session_name))

PollObs ==
    \/ PollSyncObs
    \/ PollRemove
    \/ PollNotify
    \/ PollList
    \/ PollCheck
    \/ PollDetectObs
    \/ PollReturn

EnvObs ==
    \/ EnvConc
    \/ \E n \in CallerHosts, e \in ObsEvidence : SetEvidence(n, e)

NextObs == PollObs \/ Caller \/ EnvObs

SpecObs == InitConc /\ [][NextObs]_vars

\* -------------------------------------------------------------- SpecObs2
\* two managed host sessions with kept evidence, no lifecycle calls
EnvObs2 ==
    \/ Env
    \/ \E n \in Managed, e \in ObsEvidence : SetEvidence(n, e)

NextObs2 == PollObs \/ EnvObs2

SpecObs2 == Init /\ [][NextObs2]_vars

\* -------------------------------------------------------------- SpecFail
\* the poll thread against a host that comes, goes and stops answering
EnvFail == HostFail \/ HostRecover

NextFail == Poll \/ Env \/ EnvFail

SpecFail == Init /\ [][NextFail]_vars

\* ------------------------------------------------------------- SpecFault
\* What can go wrong while a transcript is resolved and read:
\*   "read"    the resolved file cannot be opened or read: caught inside
\*             _detect_state_from_transcript (lines 146-151), which returns None
\*   "resolve" _find_transcript raises (the chosen file is gone at line 214,
\*             or a candidate holds a line that is not an object or cannot be
\*             decoded, lines 194-208): nothing on the way catches it
Faults == {"none", "read", "resolve"}

\* an exception that leaves _poll_all without a handler ends the thread
Uncaught == "dead"

\* _loop lines 56-59: an exception that leaves _poll_all lands in the
\* except clause
OnException == "caught"

\* an exception leaves _poll_all: its locals are dropped
PollRaise ==
    /\ pc' = OnException
    /\ todo' = <<>>
    /\ new_sessions' = {}
    /\ objs' = Collect(objs, sessions, <<>>, {})
    /\ UNCHANGED <<host, hostUp, pane, log, sessions, syncStable, syncQuiet,
                   cpc, carg>>
    /\ UNCHANGED mon
    /\ UNCHANGED fsv
    /\ UNCHANGED ops

\* _poll_all lines 84-93 with a fault in the transcript lookup
PollDetectFault(e, fault) ==
    /\ pc = "detect"
    /\ CASE fault = "none" -> PollDetect(e)
         [] fault = "read" -> PollDetect([e EXCEPT !.log = NoLog])
         [] fault = "resolve" -> PollRaise /\ cb' = cb

\* the callback just invoked raises: in the notification pass (line 70, the
\* later callbacks of the pass are not made) or in the evaluation loop
\* (lines 80 and 93)
PollCallbackRaise ==
    /\ cb # <<>>
    /\ \/ /\ pc = "list"
          /\ \E j \in 1..Len(cb) : cb' = SubSeq(cb, 1, j)
       \/ /\ pc = "check"
          /\ Head(todo) # 0
          /\ \E kind \in {"stopped", "transition"} :
                cb[Len(cb)] = Call(Head(todo), kind)
          /\ cb' = cb
    /\ PollRaise

\* _loop lines 58-60: the except clause reports the exception, then the
\* thread sleeps until the next cycle
PollCaught ==
    /\ pc = "caught"
    /\ pc' = "sleep"
    /\ cb' = <<>>
    /\ UNCHANGED <<host, hostUp, pane, log, sessions, new_sessions, todo,
                   syncStable, syncQuiet, cpc, carg>>
    /\ Sweep
    /\ UNCHANGED mon
    /\ UNCHANGED fsv
    /\ UNCHANGED ops

PollFault ==
    \/ \E panes \in [Managed -> Panes] : PollSync(panes)
    \/ PollRemove
    \/ PollNotify
    \/ PollList
    \/ PollCheck
    \/ \E e \in Evidence, fault \in Faults : PollDetectFault(e, fault)
    \/ PollCallbackRaise
    \/ PollCaught
    \/ PollReturn

NextFault == PollFault \/ Env

SpecFault == Init /\ [][NextFault]_vars

\* the poll thread keeps running: _loop sleeps and polls until stop()
SpecFaultLive == SpecFault /\ WF_vars(PollFault)

\* ------------------------------------------------------------- SpecTier1
\* Tier 1 over the transcripts of up to MaxRecords lines: session claude_a
\* has a transcript that stays as it is, the poll thread classifies it.
MaxRecords == 3
MaxBlocks == 2
Blocks == {ToolUse("AskUserQuestion"), ToolUse("Task"), TextBlock}
Contents == UNION {[1..n -> Blocks] : n \in 0..MaxBlocks}
Records == {UserRec, OtherRec, BadLine} \cup {AssistantRec(c) : c \in Contents}
Transcripts == {Transcript(r) : r \in UNION {[1..n -> Records] : n \in 0..MaxRecords}}

InitTier1 ==
    /\ host = {HostName(<<"a">>), Foreign}
    /\ pane \in {[n \in Managed |-> p] : p \in {PromptPane, ChoicePane}}
    /\ log \in {[n \in Managed |-> IF n \in host THEN t ELSE NoLog] : t \in Transcripts}
    /\ Constructed(pane)
    /\ MonitorStarted

\* a second session, without a transcript, may start at the host
NextTier1 == PollObs \/ HostAppear(HostName(<<"b">>))

SpecTier1 == InitTier1 /\ [][NextTier1]_vars

\* ------------------------------------------------------------- SpecTier2
\* Tier 2 over panes made of a first line, a run of filler lines and up to
\* MaxTail last lines: session claude_a has no transcript and a pane that
\* stays as it is, the poll thread classifies it.
MaxTail == 2
TextLine == <<"o", "k">>
PaneLines == {<<>>, <<" ">>, TextLine,
              <<"$">>, <<"o", " ", "U276F", " ">>, <<"$", "o">>,
              <<" ", "1", ".", " ", "A">>, <<"-", " ", "[", ">">>,
              <<"o", "k", "?">>, <<"?", "o">>}
\* fillers that keep the first line inside the 8-line window, or push it out
Fillers == {[i \in 1..n |-> l] : n \in {0, 6, 7}, l \in {<<>>, TextLine}}

\* "\n".join(lines)
RECURSIVE Join(_)
Join(lines) ==
    IF lines = <<>> THEN <<>>
    ELSE IF Len(lines) = 1 THEN lines[1]
    ELSE lines[1] \o <<"\n">> \o Join(Tail(lines))

Tier2Panes ==
    {Join(h \o f \o t) \o nl :
        h \in UNION {[1..n -> PaneLines] : n \in 0..1},
        f \in Fillers,
        t \in UNION {[1..n -> PaneLines] : n \in 0..MaxTail},
        nl \in {<<>>, <<"\n">>}}

InitTier2 ==
    /\ host = {HostName(<<"a">>), Foreign}
    /\ pane \in {[n \in Managed |-> IF n \in host THEN p ELSE <<>>] : p \in Tier2Panes}
    /\ log = [n \in Managed |-> NoLog]
    /\ Constructed(pane)
    /\ MonitorStarted

SpecTier2 == InitTier2 /\ [][NextTier1]_vars

\* --------------------------------------------------------------- SpecMon
\* The polling coordinator by itself: threads call start() and stop(), the
\* threads they spawn run _loop. A poll cycle is one step of its thread here;
\* what it does to the registry is the poll thread of the specifications
\* above.

\* a start() that does not look at _running
StartGuardOff(r) == FALSE

\* start line 42: `if self._running`
StartGuard(r) == r

\* a loop that does not look at _running
LoopForever(r) == TRUE

\* _loop line 55: `while self._running`
LoopCondition(r) == r

\* the thread runs _loop
Live(t) == lpc[t] \in {"test", "poll", "sleep"}

\* threading.Thread(...): a thread that never ran, or one that has finished
\* and that nothing refers to any more
FreeThreads ==
    {t \in Threads : /\ lpc[t] \in {"none", "done"}
                     /\ thread # t
                     /\ \A c \in Callers : spc[c].t # t}
NewThread == CHOOSE t \in FreeThreads : \A u \in FreeThreads : t <= u

\* a thread calls start()
StartCall(c) ==
    /\ spc[c] = Idle
    /\ spc' = [spc EXCEPT ![c] = At("start")]
    /\ UNCHANGED <<running, thread, lpc>>
    /\ UNCHANGED reg
    /\ UNCHANGED fsv
    /\ UNCHANGED ops

\* start lines 42-43: return when already running
StartCheck(c) ==
    /\ spc[c] = At("start")
    /\ spc' = [spc EXCEPT ![c] = IF StartGuard(running) THEN Idle ELSE At("set")]
    /\ UNCHANGED <<running, thread, lpc>>
    /\ UNCHANGED reg
    /\ UNCHANGED fsv
    /\ UNCHANGED ops

\* start line 44
StartSet(c) ==
    /\ spc[c] = At("set")
    /\ running' = TRUE
    /\ spc' = [spc EXCEPT ![c] = At("spawn")]
    /\ UNCHANGED <<thread, lpc>>
    /\ UNCHANGED reg
    /\ UNCHANGED fsv
    /\ UNCHANGED ops

\* start lines 45-46: the new thread is stored in _thread and started
StartSpawn(c) ==
    /\ spc[c] = At("spawn")
    /\ FreeThreads # {}
    /\ thread' = NewThread
    /\ lpc' = [lpc EXCEPT ![NewThread] = "test"]
    /\ spc' = [spc EXCEPT ![c] = Idle]
    /\ UNCHANGED running
    /\ UNCHANGED reg
    /\ UNCHANGED fsv
    /\ UNCHANGED ops

\* a thread calls stop()
StopCall(c) ==
    /\ spc[c] = Idle
    /\ spc' = [spc EXCEPT ![c] = At("stop")]
    /\ UNCHANGED <<running, thread, lpc>>
    /\ UNCHANGED reg
    /\ UNCHANGED fsv
    /\ UNCHANGED ops

\* stop lines 49-50: clear the flag; return when there is no thread
StopFlag(c) ==
    /\ spc[c] = At("stop")
    /\ running' = FALSE
    /\ spc' = [spc EXCEPT ![c] = IF thread # 0 THEN Joining(thread) ELSE Idle]
    /\ UNCHANGED <<thread, lpc>>
    /\ UNCHANGED reg
    /\ UNCHANGED fsv
    /\ UNCHANGED ops

\* stop lines 51-52: join(timeout=5.0) returns, because the thread has
\* finished or because the five seconds are over; _thread is cleared
StopJoined(c) ==
    /\ spc[c].at = "join"
    /\ thread' = 0
    /\ spc' = [spc EXCEPT ![c] = Idle]
    /\ UNCHANGED <<running, lpc>>
    /\ UNCHANGED reg
    /\ UNCHANGED fsv
    /\ UNCHANGED ops

\* _loop line 55: the loop condition
LoopTest(t) ==
    /\ lpc[t] = "test"
    /\ lpc' = [lpc EXCEPT ![t] = IF LoopCondition(running) THEN "poll" ELSE "done"]
    /\ UNCHANGED <<running, thread, spc>>
    /\ UNCHANGED reg
    /\ UNCHANGED fsv
    /\ UNCHANGED ops

\* _loop lines 56-59: the cycle, whether _poll_all returns or raises
LoopPoll(t) ==
    /\ lpc[t] = "poll"
    /\ lpc' = [lpc EXCEPT ![t] = "sleep"]
    /\ UNCHANGED <<running, thread, spc>>
    /\ UNCHANGED reg
    /\ UNCHANGED fsv
    /\ UNCHANGED ops

\* _loop line 60: time.sleep(self._poll_interval) returns
LoopSleep(t) ==
    /\ lpc[t] = "sleep"
    /\ lpc' = [lpc EXCEPT ![t] = "test"]
    /\ UNCHANGED <<running, thread, spc>>
    /\ UNCHANGED reg
    /\ UNCHANGED fsv
    /\ UNCHANGED ops

Loop(t) == LoopTest(t) \/ LoopPoll(t) \/ LoopSleep(t)

\* tray_app lines 62-63: the coordinator is constructed, not started
InitMon ==
    /\ host = {HostName(<<"a">>), Foreign}
    /\ pane = [n \in Managed |-> <<>>]
    /\ log = [n \in Managed |-> NoLog]
    /\ Constructed(pane)
    /\ running = FALSE
    /\ thread = 0
    /\ lpc = [t \in Threads |-> "none"]
    /\ spc = [c \in Callers |-> Idle]

NextMon ==
    \/ \E c \in Callers : StartCall(c)
    \/ \E c \in Callers : StartCheck(c)
    \/ \E c \in Callers : StartSet(c)
    \/ \E c \in Callers : StartSpawn(c)
    \/ \E c \in Callers : StopCall(c)
    \/ \E c \in Callers : StopFlag(c)
    \/ \E c \in Callers : StopJoined(c)
    \/ \E t \in Threads : LoopTest(t)
    \/ \E t \in Threads : LoopPoll(t)
    \/ \E t \in Threads : LoopSleep(t)

SpecMon == InitMon /\ [][NextMon]_vars

\* every thread that runs _loop gets processor time, time.sleep returns,
\* and join(timeout=5.0) returns
SpecMonLive ==
    /\ SpecMon
    /\ \A t \in Threads : WF_vars(Loop(t))
    /\ \A c \in Callers : WF_vars(StopJoined(c))

\* ------------------------------------------------------ user-thread calls
\* The calls a user thread makes on the registry, each with its own position
\* and its result kept in tpc. A `with self._lock` block is one step, taken
\* when the lock is free.
\* number of ports start_ttyd may assign, and of bridges it may spawn
MaxPorts == 2
MaxProcs == 2

\* the poll cycle and the first caller thread
pollv == <<pc, new_sessions, todo, cb, syncStable, syncQuiet, cpc, carg>>

InCall(c, op, at) == tpc[c].op = op /\ tpc[c].at = at
Begin(c, op, at, name) ==
    tpc' = [tpc EXCEPT ![c] = [NoCall EXCEPT !.op = op, !.at = at, !.name = name]]
Goto(c, at) == tpc' = [tpc EXCEPT ![c].at = at]
Return(c, ret, port) ==
    tpc' = [tpc EXCEPT ![c] = [NoCall EXCEPT !.ret = ret, !.port = port,
                                             !.name = tpc[c].name]]

\* a sweep that ends at the first kill that fails
NextKillUnlessFailed(c, failed) ==
    LET r == tpc[c].rest
        f == failed \/ tpc[c].ret = "failed"
    IN IF r = <<>> \/ f
       THEN Return(c, IF f THEN "failed" ELSE "done", 0)
       ELSE tpc' = [tpc EXCEPT ![c] = [NoCall EXCEPT !.op = "killall", !.at = "stop",
                                                     !.name = Head(r), !.rest = Tail(r)]]

\* kill_all_sessions lines 81-82: the next name of the snapshot, or the end
NextKill(c, failed) ==
    LET r == tpc[c].rest
        f == failed \/ tpc[c].ret = "failed"
    IN IF r = <<>>
       THEN Return(c, IF f THEN "failed" ELSE "done", 0)
       ELSE tpc' = [tpc EXCEPT ![c] = [NoCall EXCEPT !.op = "killall", !.at = "stop",
                                                     !.name = Head(r), !.rest = Tail(r),
                                                     !.ret = IF f THEN "failed" ELSE ""]]

\* kill_session lines 73 and 76: return True or False, to the caller or to
\* kill_all_sessions
KillReturn(c, ok) ==
    IF tpc[c].op = "killall" THEN NextKill(c, ~ok)
    ELSE Return(c, IF ok THEN "true" ELSE "false", 0)

\* a host that creates a session whatever it already has
CanCreateAlways(session_name) == TRUE

\* create_session line 37: server.new_session succeeds
CanCreate(session_name) == hostUp /\ session_name \notin host

\* create_session lines 34-47: the host spawns the session; when it cannot
\* (a session of that name exists, the host does not answer) new_session
\* raises and the call ends
UserCreate(c, project_name) ==
    /\ tpc[c].at = "idle"
    /\ LET session_name == HostName(project_name) IN
       IF CanCreate(session_name)
       THEN /\ host' = host \cup {session_name}
            /\ Begin(c, "create", "insert", session_name)
       ELSE /\ host' = host
            /\ tpc' = [tpc EXCEPT ![c] = [NoCall EXCEPT !.ret = "raised",
                                                        !.name = session_name]]
    /\ UNCHANGED <<hostUp, pane, log, sessions, objs, lock, scan, gone, next_ttyd_port, procs>>
    /\ UNCHANGED pollv
    /\ UNCHANGED mon
    /\ UNCHANGED fsv

\* create_session lines 49-59
UserCreateInsert(c) ==
    /\ InCall(c, "create", "insert")
    /\ lock = "free"
    /\ FreeIds(Collect(objs, sessions, todo, {})) # {}
    /\ LET session_name == tpc[c].name
           o == NewId(Collect(objs, sessions, todo, {}))
           info == SessionInfo(SubSeq(session_name, Len(SESSION_PREFIX) + 1, Len(session_name)),
                               session_name, WORKING, CallerDir)
       IN /\ sessions' = Put(sessions, session_name, o)
          /\ objs' = Collect([objs EXCEPT ![o] = info], sessions', todo, {})
    /\ Return(c, "info", 0)
    /\ UNCHANGED <<host, hostUp, pane, log, lock, scan, gone, next_ttyd_port, procs>>
    /\ UNCHANGED pollv
    /\ UNCHANGED mon
    /\ UNCHANGED fsv

\* a caller calls stop_ttyd, or kill_session, whose first statement is
\* stop_ttyd (line 63)
UserStop(c, session_name) ==
    /\ tpc[c].at = "idle"
    /\ Begin(c, "stop", "stop", session_name)
    /\ UNCHANGED <<host, hostUp, pane, log, sessions, objs, lock, scan, gone, next_ttyd_port, procs>>
    /\ UNCHANGED pollv
    /\ UNCHANGED mon
    /\ UNCHANGED fsv

UserKill(c, session_name) ==
    /\ tpc[c].at = "idle"
    /\ Begin(c, "kill", "stop", session_name)
    /\ UNCHANGED <<host, hostUp, pane, log, sessions, objs, lock, scan, gone, next_ttyd_port, procs>>
    /\ UNCHANGED pollv
    /\ UNCHANGED mon
    /\ UNCHANGED fsv

\* kill_all_sessions lines 79-80: the snapshot of the keys, under the lock
UserKillAll(c) ==
    /\ tpc[c].at = "idle"
    /\ lock = "free"
    /\ LET names == [i \in 1..Len(sessions) |-> sessions[i].key]
       IN IF names = <<>> THEN Return(c, "done", 0)
          ELSE tpc' = [tpc EXCEPT ![c] = [NoCall EXCEPT !.op = "killall", !.at = "stop",
                                                        !.name = Head(names),
                                                        !.rest = Tail(names)]]
    /\ UNCHANGED <<host, hostUp, pane, log, sessions, objs, lock, scan, gone, next_ttyd_port, procs>>
    /\ UNCHANGED pollv
    /\ UNCHANGED mon
    /\ UNCHANGED fsv

\* after stop_ttyd: back to the caller, or on with kill_session line 65
StopDone(c) ==
    IF tpc[c].op = "stop" THEN Return(c, "none", 0) ELSE Goto(c, "host")

\* stop_ttyd lines 164-168: look the session and its pid up, under the lock
StopLook(c) ==
    /\ tpc[c].at = "stop"
    /\ lock = "free"
    /\ LET n == tpc[c].name
           pid == IF n \in Keys(sessions) THEN objs[ObjOf(sessions, n)].ttyd_pid ELSE 0
       IN IF pid = 0 THEN StopDone(c)
          ELSE tpc' = [tpc EXCEPT ![c].at = "signal", ![c].pid = pid]
    /\ UNCHANGED <<host, hostUp, pane, log, sessions, objs, lock, scan, gone, next_ttyd_port, procs>>
    /\ UNCHANGED pollv
    /\ UNCHANGED mon
    /\ UNCHANGED fsv

\* stop_ttyd lines 170-173: os.kill(pid, SIGTERM); a process that is gone
\* raises ProcessLookupError, which is passed over
StopSignal(c) ==
    /\ tpc[c].at = "signal"
    /\ procs' = [procs EXCEPT ![tpc[c].pid].alive = FALSE]
    /\ Goto(c, "clear")
    /\ UNCHANGED <<host, hostUp, pane, log, sessions, objs, lock, scan, gone, next_ttyd_port>>
    /\ UNCHANGED pollv
    /\ UNCHANGED mon
    /\ UNCHANGED fsv

\* a stop that forgets the pid and keeps the port
ClearedPidOnly(info) == [info EXCEPT !.ttyd_pid = 0]

\* ttyd_pid = None, ttyd_port = None
Cleared(info) == [info EXCEPT !.ttyd_pid = 0, !.ttyd_port = 0]

\* stop_ttyd lines 175-178: clear both fields, under the lock
StopClear(c) ==
    /\ tpc[c].at = "clear"
    /\ lock = "free"
    /\ LET n == tpc[c].name
       IN objs' = IF n \in Keys(sessions)
                  THEN [objs EXCEPT ![ObjOf(sessions, n)] = Cleared(@)]
                  ELSE objs
    /\ StopDone(c)
    /\ UNCHANGED <<host, hostUp, pane, log, sessions, lock, scan, gone, next_ttyd_port, procs>>
    /\ UNCHANGED pollv
    /\ UNCHANGED mon
    /\ UNCHANGED fsv

\* kill_session lines 65-67: find the host session and kill it; kill()
\* raises when the session has ended since it was found (line 74: False)
KillTerminate(c, raises) ==
    /\ tpc[c].at = "host"
    /\ LET n == tpc[c].name IN
       IF FindTmuxSession(n) /\ raises
       THEN /\ KillReturn(c, FALSE)
            /\ UNCHANGED <<host, pane>>
       ELSE /\ host' = IF FindTmuxSession(n) THEN host \ {n} ELSE host
            /\ pane' = IF FindTmuxSession(n) THEN Blank(n) ELSE pane
            /\ Goto(c, "remove")
    /\ UNCHANGED <<hostUp, log, sessions, objs, lock, scan, gone, next_ttyd_port, procs>>
    /\ UNCHANGED pollv
    /\ UNCHANGED mon
    /\ UNCHANGED fsv

\* kill_session lines 69-73: mark STOPPED and delete, under the lock
KillDelete(c) ==
    /\ tpc[c].at = "remove"
    /\ lock = "free"
    /\ LET n == tpc[c].name IN
       IF n \in Keys(sessions)
       THEN /\ sessions' = Del(sessions, {n})
            /\ objs' = Collect([objs EXCEPT ![ObjOf(sessions, n)].state = STOPPED],
                               sessions', todo, {})
       ELSE UNCHANGED <<sessions, objs>>
    /\ KillReturn(c, TRUE)
    /\ UNCHANGED <<host, hostUp, pane, log, lock, scan, gone, next_ttyd_port, procs>>
    /\ UNCHANGED pollv
    /\ UNCHANGED mon
    /\ UNCHANGED fsv

\* -------------------------------------------------- user thread: start_ttyd
\* an explicit port a caller may pass, next to None (0)
GivenPort == 9000

\* start_ttyd lines 127-132: look the session up, under the lock; an unknown
\* name ends the call with None, a recorded bridge with its port
StartLook(c, session_name, port) ==
    /\ tpc[c].at = "idle"
    /\ lock = "free"
    /\ next_ttyd_port < TTYD_BASE_PORT + MaxPorts
    /\ Len(procs) < MaxProcs
    /\ IF session_name \notin Keys(sessions)
       THEN tpc' = [tpc EXCEPT ![c] = [NoCall EXCEPT !.ret = "none",
                                                     !.name = session_name]]
       ELSE LET info == objs[ObjOf(sessions, session_name)]
            IN IF info.ttyd_pid # 0
               THEN tpc' = [tpc EXCEPT ![c] = [NoCall EXCEPT !.ret = "port",
                                                             !.port = info.ttyd_port,
                                                             !.name = session_name]]
               ELSE tpc' = [tpc EXCEPT ![c] =
                              [NoCall EXCEPT !.op = "start", !.name = session_name,
                                             !.port = port,
                                             !.at = IF port = 0 THEN "port" ELSE "spawn"]]
    /\ UNCHANGED <<host, hostUp, pane, log, sessions, objs, lock, scan, gone, next_ttyd_port, procs>>
    /\ UNCHANGED pollv
    /\ UNCHANGED mon
    /\ UNCHANGED fsv

\* start_ttyd line 135: port = self._next_ttyd_port
StartPort(c) ==
    /\ InCall(c, "start", "port")
    /\ tpc' = [tpc EXCEPT ![c].port = next_ttyd_port, ![c].at = "load"]
    /\ UNCHANGED <<host, hostUp, pane, log, sessions, objs, lock, scan, gone, next_ttyd_port, procs>>
    /\ UNCHANGED pollv
    /\ UNCHANGED mon
    /\ UNCHANGED fsv

\* start_ttyd line 136, `self._next_ttyd_port += 1`: the attribute is read
StartLoad(c) ==
    /\ InCall(c, "start", "load")
    /\ tpc' = [tpc EXCEPT ![c].tmp = next_ttyd_port, ![c].at = "store"]
    /\ UNCHANGED <<host, hostUp, pane, log, sessions, objs, lock, scan, gone, next_ttyd_port, procs>>
    /\ UNCHANGED pollv
    /\ UNCHANGED mon
    /\ UNCHANGED fsv

\* start_ttyd line 136: the sum is stored
StartStore(c) ==
    /\ InCall(c, "start", "store")
    /\ next_ttyd_port' = tpc[c].tmp + 1
    /\ tpc' = [tpc EXCEPT ![c].tmp = 0, ![c].at = "spawn"]
    /\ UNCHANGED <<host, hostUp, pane, log, sessions, objs, lock, scan, gone, procs>>
    /\ UNCHANGED pollv
    /\ UNCHANGED mon
    /\ UNCHANGED fsv

\* start_ttyd lines 138-148 and 156-161: Popen starts the bridge, or raises
\* (the tool is missing, the start fails) and the call ends with None
BridgeSpawn(c, started) ==
    /\ InCall(c, "start", "spawn")
    /\ IF started
       THEN /\ procs' = Append(procs, [session |-> tpc[c].name, port |-> tpc[c].port,
                                       alive |-> TRUE])
            /\ tpc' = [tpc EXCEPT ![c].pid = Len(procs) + 1, ![c].at = "record"]
       ELSE /\ procs' = procs
            /\ Return(c, "none", 0)
    /\ UNCHANGED <<host, hostUp, pane, log, sessions, objs, lock, scan, gone, next_ttyd_port>>
    /\ UNCHANGED pollv
    /\ UNCHANGED mon
    /\ UNCHANGED fsv

\* a record that keeps the port and drops the pid
RecordedPortOnly(info, port, pid) == [info EXCEPT !.ttyd_port = port]

\* a record that also marks the session as working
RecordedWorking(info, port, pid) ==
    [info EXCEPT !.ttyd_port = port, !.ttyd_pid = pid, !.state = WORKING]

\* start_ttyd lines 152-153
Recorded(info, port, pid) == [info EXCEPT !.ttyd_port = port, !.ttyd_pid = pid]

\* start_ttyd lines 150-155: record port and pid when the session is still
\* registered, under the lock; return the port
BridgeRecord(c) ==
    /\ InCall(c, "start", "record")
    /\ lock = "free"
    /\ LET n == tpc[c].name
       IN objs' = IF n \in Keys(sessions)
                  THEN [objs EXCEPT ![ObjOf(sessions, n)] =
                                       Recorded(@, tpc[c].port, tpc[c].pid)]
                  ELSE objs
    /\ Return(c, "port", tpc[c].port)
    /\ UNCHANGED <<host, hostUp, pane, log, sessions, lock, scan, gone, next_ttyd_port, procs>>
    /\ UNCHANGED pollv
    /\ UNCHANGED mon
    /\ UNCHANGED fsv

\* a bridge process ends on its own
BridgeExit(pid) ==
    /\ pid \in 1..Len(procs)
    /\ procs[pid].alive
    /\ procs' = [procs EXCEPT ![pid].alive = FALSE]
    /\ UNCHANGED <<host, hostUp, pane, log, sessions, objs, lock, scan, gone, next_ttyd_port, tpc>>
    /\ UNCHANGED pollv
    /\ UNCHANGED mon
    /\ UNCHANGED fsv

\* ------------------------------------------- user thread: interaction, query
\* a call that ends in the step it begins in: how it ended, for which session,
\* and the sequence it returned
Ended(c, session_name, ret, rest) ==
    tpc' = [tpc EXCEPT ![c] = [NoCall EXCEPT !.ret = ret, !.name = session_name,
                                             !.rest = rest]]

\* send_command lines 86-91: no pane, False; else the command and Enter reach
\* the pane, whose program redraws it, or pane.send_keys raises
UserSendCommand(c, session_name, raises) ==
    /\ tpc[c].at = "idle"
    /\ IF ~FindTmuxSession(session_name)
       THEN pane' = pane /\ Ended(c, session_name, "false", <<>>)
       ELSE IF raises
            THEN pane' = pane /\ Ended(c, session_name, "raised", <<>>)
            ELSE /\ \E shown \in Panes : pane' = [pane EXCEPT ![session_name] = shown]
                 /\ Ended(c, session_name, "true", <<>>)
    /\ UNCHANGED <<host, hostUp, log, sessions, objs, lock, scan, gone, next_ttyd_port, procs>>
    /\ UNCHANGED pollv
    /\ UNCHANGED mon
    /\ UNCHANGED fsv

\* send_keys lines 93-98: no pane, False; else the keys reach the pane, with
\* Enter or without, or pane.send_keys raises
UserSendKeys(c, session_name, enter, raises) ==
    /\ tpc[c].at = "idle"
    /\ IF ~FindTmuxSession(session_name)
       THEN pane' = pane /\ Ended(c, session_name, "false", <<>>)
       ELSE IF raises
            THEN pane' = pane /\ Ended(c, session_name, "raised", <<>>)
            ELSE /\ IF enter
                    THEN \E shown \in Panes : pane' = [pane EXCEPT ![session_name] = shown]
                    ELSE pane' = pane
                 /\ Ended(c, session_name, "true", <<>>)
    /\ UNCHANGED <<host, hostUp, log, sessions, objs, lock, scan, gone, next_ttyd_port, procs>>
    /\ UNCHANGED pollv
    /\ UNCHANGED mon
    /\ UNCHANGED fsv

\* capture_output lines 100-109: the pane's text, "" without a pane
UserCapture(c, session_name) ==
    /\ tpc[c].at = "idle"
    /\ Ended(c, session_name, "text", CaptureOutput(session_name, pane[session_name]))
    /\ UNCHANGED <<host, hostUp, pane, log, sessions, objs, lock, scan, gone, next_ttyd_port, procs>>
    /\ UNCHANGED pollv
    /\ UNCHANGED mon
    /\ UNCHANGED fsv

\* list_sessions lines 113-115: the registered objects, under the lock
UserList(c) ==
    /\ tpc[c].at = "idle"
    /\ lock = "free"
    /\ Ended(c, <<>>, "list", ListSessions)
    /\ UNCHANGED <<host, hostUp, pane, log, sessions, objs, lock, scan, gone, next_ttyd_port, procs>>
    /\ UNCHANGED pollv
    /\ UNCHANGED mon
    /\ UNCHANGED fsv

\* get_session lines 117-119: the registered object or None, under the lock
UserGet(c, session_name) ==
    /\ tpc[c].at = "idle"
    /\ lock = "free"
    /\ IF GetSession(session_name) = 0 THEN Ended(c, session_name, "none", <<>>)
       ELSE Ended(c, session_name, "info", <<GetSession(session_name)>>)
    /\ UNCHANGED <<host, hostUp, pane, log, sessions, objs, lock, scan, gone, next_ttyd_port, procs>>
    /\ UNCHANGED pollv
    /\ UNCHANGED mon
    /\ UNCHANGED fsv

\* session_exists lines 121-122
UserExists(c, session_name) ==
    /\ tpc[c].at = "idle"
    /\ Ended(c, session_name, IF FindTmuxSession(session_name) THEN "true" ELSE "false",
             <<>>)
    /\ UNCHANGED <<host, hostUp, pane, log, sessions, objs, lock, scan, gone, next_ttyd_port, procs>>
    /\ UNCHANGED pollv
    /\ UNCHANGED mon
    /\ UNCHANGED fsv

\* -------------------------------------------------------------- SpecLife
\* two user threads create and kill sessions, one at a time or all at once;
\* the host loses sessions and stops answering
KillRaises == BOOLEAN

Creates ==
    \/ \E c \in Callers, p \in PROJECTS : UserCreate(c, p)
    \/ \E c \in Callers : UserCreateInsert(c)

Kills ==
    \/ \E c \in Callers, n \in Managed : UserKill(c, n)
    \/ \E c \in Callers : UserKillAll(c)
    \/ \E c \in Callers : StopLook(c)
    \/ \E c \in Callers, r \in KillRaises : KillTerminate(c, r)
    \/ \E c \in Callers : KillDelete(c)

Life == Creates \/ Kills

NextLife == Life \/ EnvFail \/ (\E n \in Managed : HostDisappear(n))

SpecLife == Init /\ [][NextLife]_vars

\* ------------------------------------------------------------- SpecSweep
\* the user threads kill sessions, one at a time or all at once, and nothing
\* adds a session
NextSweep == Kills \/ EnvFail \/ (\E n \in Managed : HostDisappear(n))

SpecSweep == Init /\ [][NextSweep]_vars

\* ------------------------------------------------------------ SpecBridge
\* two user threads start and stop remote-access bridges for the managed
\* names, registered or not; a bridge may fail to start and may end on its own
Bridges ==
    \/ \E c \in Callers, n \in Managed, p \in {0, GivenPort} : StartLook(c, n, p)
    \/ \E c \in Callers : StartPort(c)
    \/ \E c \in Callers : StartLoad(c)
    \/ \E c \in Callers : StartStore(c)
    \/ \E c \in Callers, started \in BOOLEAN : BridgeSpawn(c, started)
    \/ \E c \in Callers : BridgeRecord(c)
    \/ \E c \in Callers, n \in Managed : UserStop(c, n)
    \/ \E c \in Callers : StopLook(c)
    \/ \E c \in Callers : StopSignal(c)
    \/ \E c \in Callers : StopClear(c)

NextBridge == Bridges \/ (\E pid \in 1..MaxProcs : BridgeExit(pid))

\* claude_a is registered, claude_b is registered or an unknown name
InitBridge ==
    /\ host \in {{HostName(<<"a">>), Foreign}, Managed}
    /\ pane = [n \in Managed |-> <<>>]
    /\ log = [n \in Managed |-> NoLog]
    /\ Constructed(pane)
    /\ MonitorStarted

SpecBridge == InitBridge /\ [][NextBridge]_vars

\* -------------------------------------------------------------- SpecLock
\* sync_sessions statement by statement, with the lock it takes, next to one
\* user thread that creates and kills sessions.
\*
\* _discover_existing_sessions line 210: server.sessions is enumerated; an
\* enumeration that raises ends the discovery (lines 240-241)
SyncEnumerate ==
    /\ pc = "sleep"
    /\ scan' = IF hostUp THEN Enumerate ELSE <<>>
    /\ new_sessions' = {}
    /\ pc' = "test"
    /\ syncStable' = TRUE
    /\ syncQuiet' = TRUE
    /\ Sweep
    /\ UNCHANGED <<host, hostUp, pane, log, sessions, todo, cb, cpc, carg>>
    /\ UNCHANGED <<lock, gone, next_ttyd_port, procs, tpc>>
    /\ UNCHANGED mon
    /\ UNCHANGED fsv

\* _discover_existing_sessions lines 211-214: the prefix test and the
\* membership test `name in self._sessions`, made without the lock
SyncTest ==
    /\ pc = "test"
    /\ IF scan = <<>> THEN pc' = "acquire" /\ scan' = scan
       ELSE IF ~HasPrefix(Head(scan)) \/ Head(scan) \in Keys(sessions)
            THEN pc' = "test" /\ scan' = Tail(scan)
            ELSE pc' = "insert" /\ scan' = scan
    /\ UNCHANGED <<host, hostUp, pane, log, sessions, objs, new_sessions, todo, cb,
                   syncStable, syncQuiet, cpc, carg>>
    /\ UNCHANGED <<lock, gone, next_ttyd_port, procs, tpc>>
    /\ UNCHANGED mon
    /\ UNCHANGED fsv

\* _discover_existing_sessions lines 216-239: the pane is read (a session that
\* is gone by now gives "" and WORKING, lines 221-222 and 229-230) and the
\* SessionInfo is stored with `self._sessions[name] = info`, without the lock
SyncInsert ==
    /\ pc = "insert"
    /\ FreeIds(Collect(objs, sessions, todo, {})) # {}
    /\ LET name == Head(scan)
           project_name == SubSeq(name, Len(SESSION_PREFIX) + 1, Len(name))
           there == FindTmuxSession(name)
           initial_state == IF there THEN DetectStateFromOutput(CapturePane(pane, name))
                            ELSE WORKING
           cwd == IF there THEN PaneDir ELSE <<>>
           o == NewId(Collect(objs, sessions, todo, {}))
       IN /\ sessions' = Put(sessions, name, o)
          /\ objs' = Collect([objs EXCEPT ![o] = SessionInfo(project_name, name,
                                                            initial_state, cwd)],
                             sessions', todo, {})
          /\ new_sessions' = new_sessions \cup {name}
    /\ scan' = Tail(scan)
    /\ pc' = "test"
    /\ UNCHANGED <<host, hostUp, pane, log, todo, cb, syncStable, syncQuiet, cpc, carg>>
    /\ UNCHANGED <<lock, gone, next_ttyd_port, procs, tpc>>
    /\ UNCHANGED mon
    /\ UNCHANGED fsv

\* sync_sessions lines 253-255: the lock is taken and the iteration over the
\* registered names begins
SyncAcquire ==
    /\ pc = "acquire"
    /\ lock = "free"
    /\ lock' = "poll"
    /\ scan' = [i \in 1..Len(sessions) |-> sessions[i].key]
    /\ gone' = <<>>
    /\ pc' = IF sessions = <<>> THEN "drop" ELSE "find"
    /\ UNCHANGED <<host, hostUp, pane, log, sessions, objs, new_sessions, todo, cb,
                   syncStable, syncQuiet, cpc, carg>>
    /\ UNCHANGED <<next_ttyd_port, procs, tpc>>
    /\ UNCHANGED mon
    /\ UNCHANGED fsv

\* sync_sessions line 256: _find_tmux_session(name) enumerates the host's
\* sessions for the next registered name, inside the `with self._lock` block
SyncFind ==
    /\ pc = "find"
    /\ gone' = IF FindTmuxSession(Head(scan)) THEN gone ELSE Append(gone, Head(scan))
    /\ scan' = Tail(scan)
    /\ pc' = IF Tail(scan) = <<>> THEN "drop" ELSE "find"
    /\ UNCHANGED <<host, hostUp, pane, log, sessions, objs, new_sessions, todo, cb,
                   syncStable, syncQuiet, cpc, carg>>
    /\ UNCHANGED <<lock, next_ttyd_port, procs, tpc>>
    /\ UNCHANGED mon
    /\ UNCHANGED fsv

\* sync_sessions lines 258-262: every gone session is marked STOPPED and
\* deleted, the lock is released
SyncDrop ==
    /\ pc = "drop"
    /\ LET names == SeqRange(gone)
           marked == [i \in Ids |->
                        IF \E k \in names : ObjOf(sessions, k) = i
                        THEN [objs[i] EXCEPT !.state = STOPPED] ELSE objs[i]]
       IN /\ sessions' = Del(sessions, names)
          /\ objs' = Collect(marked, sessions', todo,
                              {ObjOf(sessions, k) : k \in names})
    /\ gone' = <<>>
    /\ lock' = "free"
    /\ pc' = IF new_sessions # {} THEN "notify" ELSE "list"
    /\ syncStable' = TRUE
    /\ syncQuiet' = TRUE
    /\ UNCHANGED <<host, hostUp, pane, log, new_sessions, todo, cb, cpc, carg>>
    /\ UNCHANGED <<scan, next_ttyd_port, procs, tpc>>
    /\ UNCHANGED mon
    /\ UNCHANGED fsv

Sync ==
    \/ SyncEnumerate
    \/ SyncTest
    \/ SyncInsert
    \/ SyncAcquire
    \/ SyncFind
    \/ SyncDrop

\* the rest of the poll cycle
Cycle ==
    \/ PollNotify
    \/ PollList
    \/ PollCheck
    \/ PollDetectObs
    \/ PollReturn

\* the thread of the user interface creates and kills one session
UiLife ==
    \/ \E p \in CallerProjects : UserCreate("ui", p)
    \/ UserCreateInsert("ui")
    \/ \E n \in CallerHosts : UserKill("ui", n)
    \/ StopLook("ui")
    \/ \E r \in KillRaises : KillTerminate("ui", r)
    \/ KillDelete("ui")

NextLock == Sync \/ Cycle \/ UiLife \/ EnvConc

\* claude_a is registered; claude_b is not at the host
InitLock ==
    /\ host = {HostName(<<"a">>), Foreign}
    /\ pane = [n \in Managed |-> <<>>]
    /\ log = [n \in Managed |-> NoLog]
    /\ Constructed(pane)
    /\ MonitorStarted

SpecLock == InitLock /\ [][NextLock]_vars

\* ------------------------------------------------------------- SpecFrame
\* the thread of the user interface sends keys, captures, queries and starts
\* and stops bridges for claude_a, which is registered in the state its pane
\* showed at discovery, and for claude_b, which is unknown; the host may stop
\* answering
Queries ==
    \/ \E n \in Managed, r \in BOOLEAN : UserSendCommand("ui", n, r)
    \/ \E n \in Managed, enter \in BOOLEAN, r \in BOOLEAN : UserSendKeys("ui", n, enter, r)
    \/ \E n \in Managed : UserCapture("ui", n)
    \/ UserList("ui")
    \/ \E n \in Managed : UserGet("ui", n)
    \/ \E n \in Managed : UserExists("ui", n)

UiBridges ==
    \/ \E n \in Managed, p \in {0, GivenPort} : StartLook("ui", n, p)
    \/ StartPort("ui")
    \/ StartLoad("ui")
    \/ StartStore("ui")
    \/ \E started \in BOOLEAN : BridgeSpawn("ui", started)
    \/ BridgeRecord("ui")
    \/ \E n \in Managed : UserStop("ui", n)
    \/ StopLook("ui")
    \/ StopSignal("ui")
    \/ StopClear("ui")

NextFrame == Queries \/ UiBridges \/ EnvFail

InitFrame ==
    /\ host = {HostName(<<"a">>), Foreign}
    /\ \E shown \in Panes :
          pane = [n \in Managed |-> IF n = HostName(<<"a">>) THEN shown ELSE <<>>]
    /\ log = [n \in Managed |-> NoLog]
    /\ Constructed(pane)
    /\ MonitorStarted

SpecFrame == InitFrame /\ [][NextFrame]_vars

\* ------------------------------------------------------------- SpecAdopt
\* sync_sessions statement by statement, with a host session that comes and
\* goes, shows a different pane from time to time, and a host that may stop
\* answering between the enumeration and the reading of a pane
NextAdopt ==
    \/ Sync
    \/ Cycle
    \/ EnvConc
    \/ EnvFail
    \/ \E n \in CallerHosts, shown \in Panes : SetEvidence(n, [log |-> NoLog, pane |-> shown])

SpecAdopt == InitLock /\ [][NextAdopt]_vars

\* ------------------------------------------------------------ SpecCursor
\* _find_transcript and its cache, next to the transcript files that agents
\* write, rotate and remove, and to a user thread that kills and creates the
\* session the transcripts are looked up for.
\*
\* the working directories a transcript's first user record may name
Dirs == {CallerDir, PaneDir}

\* the path becomes the most recently modified one
Touch(order, p) == <<p>> \o SelectSeq(order, LAMBDA q : q # p)

\* _find_transcript lines 160-170: the cached path exists and is not smaller
\* than it was when it was last returned
CacheValid(entry) ==
    /\ entry # NoEntry
    /\ files[entry.path].exists
    /\ files[entry.path].size >= entry.size

\* _find_transcript lines 187-211: the most recently modified file whose
\* first user record names the directory, "" for None
BestPath(cwd) ==
    LET matching == SelectSeq(recent, LAMBDA p : files[p].exists /\ files[p].cwd = cwd)
    IN IF matching = <<>> THEN "" ELSE Head(matching)

\* _find_transcript lines 153-216 for the registered object o
FindTranscript(o) ==
    /\ \E i \in 1..Len(sessions) : sessions[i].obj = o
    /\ LET key == objs[o].tmux_session_name
           entry == cache[key]
           cwd == objs[o].working_directory
           found == IF cwd = <<>> THEN "" ELSE BestPath(cwd)
       IN IF CacheValid(entry)
          THEN /\ cache' = [cache EXCEPT ![key] = Entry(entry.path, files[entry.path].size)]
               /\ look' = [look EXCEPT !.key = key, !.path = entry.path,
                                       !.scanned = FALSE]
          ELSE /\ cache' = IF found = "" THEN cache
                           ELSE [cache EXCEPT ![key] = Entry(found, files[found].size)]
               /\ look' = [key |-> key, path |-> found, scanned |-> TRUE,
                           stale |-> [look.stale EXCEPT ![key] =
                                        (@ \cup (IF entry = NoEntry THEN {}
                                                 ELSE {entry.path})) \ {found}]]
    /\ UNCHANGED <<files, recent>>
    /\ UNCHANGED reg
    /\ UNCHANGED mon
    /\ UNCHANGED ops

\* an agent appends a record to its transcript, creating the file if need
\* be; the first user record names the agent's working directory
TranscriptWrite(p, cwd) ==
    /\ files[p].size < MaxSize
    /\ files' = [files EXCEPT ![p] = File(files[p].size + 1,
                                          IF files[p].cwd = <<>> THEN cwd ELSE files[p].cwd)]
    /\ recent' = Touch(recent, p)
    /\ UNCHANGED <<cache, look>>
    /\ UNCHANGED reg
    /\ UNCHANGED mon
    /\ UNCHANGED ops

\* a transcript is truncated (rotation)
TranscriptTruncate(p) ==
    /\ files[p].exists
    /\ files[p].size > 0
    /\ files' = [files EXCEPT ![p] = File(0, <<>>)]
    /\ recent' = Touch(recent, p)
    /\ UNCHANGED <<cache, look>>
    /\ UNCHANGED reg
    /\ UNCHANGED mon
    /\ UNCHANGED ops

\* a transcript is removed
TranscriptRemove(p) ==
    /\ files[p].exists
    /\ files' = [files EXCEPT ![p] = NoFile]
    /\ UNCHANGED <<recent, cache, look>>
    /\ UNCHANGED reg
    /\ UNCHANGED mon
    /\ UNCHANGED ops

NextCursor ==
    \/ \E o \in Ids : FindTranscript(o)
    \/ \E p \in Paths, cwd \in Dirs \cup {<<>>} : TranscriptWrite(p, cwd)
    \/ \E p \in Paths : TranscriptTruncate(p)
    \/ \E p \in Paths : TranscriptRemove(p)
    \/ UiLife

SpecCursor == InitLock /\ [][NextCursor]_vars

\* ------------------------------------------------------------ SpecOrphan
\* the thread of the user interface starts and stops bridges for claude_a and
\* kills and creates it, while the host session comes and goes and the poll
\* thread syncs the registry with the host
NextOrphan ==
    \/ PollObs
    \/ UiBridges
    \/ UiLife
    \/ EnvConc
    \/ \E pid \in 1..MaxProcs : BridgeExit(pid)

SpecOrphan == InitLock /\ [][NextOrphan]_vars

\* ------------------------------------------------------------- SpecStuck
\* the poll thread alone, cycle after cycle (_loop lines 57-60), against a
\* host whose session claude_a comes and goes, that stops answering and
\* answers again, and whose agent changes what it shows
NextStuck ==
    \/ PollObs
    \/ EnvFail
    \/ EnvConc
    \/ \E n \in CallerHosts, e \in ObsEvidence : SetEvidence(n, e)

\* _loop lines 57-60 never block: the poll thread always takes its next
\* step.  Poll is PollObs with what a read returns drawn from every value:
\* it is enabled exactly when PollObs is, and since every step of the thread
\* changes pc or todo, which the environment never does, a Poll step of
\* NextStuck is a PollObs step.
SpecStuck == InitLock /\ [][NextStuck]_vars /\ WF_vars(Poll)

\* ------------------------------------------------------------ SpecRebind
\* _find_transcript for a session that the user thread kills and creates
\* again, with transcripts that only grow: no file is rotated or removed, so
\* the directory a transcript names never changes, and a cache entry always
\* holds a path that named the directory of the session it was selected for
NextRebind ==
    \/ \E o \in Ids : FindTranscript(o)
    \/ \E p \in Paths, cwd \in Dirs : TranscriptWrite(p, cwd)
    \/ UiLife

SpecRebind == InitLock /\ [][NextRebind]_vars

\* ================================================================= claims
\* the registry holds object o
Registered(o) == \E i \in 1..Len(sessions) : sessions[i].obj = o

\* the poll thread takes the next session of its snapshot
TakesNext == pc = "check" /\ Tail(todo) # <<>> /\ todo' = Tail(todo)

\* the poll thread finishes the detection of the session it holds
Detects == pc = "detect" /\ pc' = "check"

\* the number of recorded callbacks of `kind` for the session named `key`
Calls(hist, key, kind) ==
    Cardinality({i \in 1..Len(hist) : hist[i] = [key |-> key, kind |-> kind]})

\* ---------------------------------------------------------------------- C1
\* the evaluation of the held session, registered and alive at the host:
\* a detected state that differs is stored and called back once, an equal
\* one changes nothing and calls nothing
C1_DetectStep ==
    Detects =>
      LET o == Head(todo)
          key == objs[o].tmux_session_name
          detected == Detect(key, Shown(key))
      IN (Registered(o) /\ key \in host) =>
           IF detected # objs[o].state
           THEN /\ objs'[o].state = detected
                /\ cb' = Append(cb, [key |-> key, kind |-> "transition"])
                /\ Calls(cb', key, "transition") = 1
           ELSE /\ objs'[o] = objs[o]
                /\ cb' = cb

\* the cycle's snapshot holds every registered session
C1_ListStep == (pc = "list" /\ pc' = "check") => Tail(todo') = ListSessions

C2_CreateStep ==
    (cpc = "create" /\ cpc' = "idle") =>
      LET key == SESSION_PREFIX \o carg IN
      Keys(sessions) \subseteq {key} =>
        /\ Len(sessions') = 1
        /\ sessions'[1].key = key
        /\ objs'[sessions'[1].obj] =
             [name |-> carg, tmux_session_name |-> key, state |-> WORKING,
              working_directory |-> CallerDir, ttyd_port |-> 0, ttyd_pid |-> 0,
              last_output |-> <<>>]

\* a cycle delivers no "appeared" callback for a session registered before it
C2_NoAppeared ==
    /\ (pc = "sleep" /\ pc' = "remove") => new_sessions' \cap Keys(sessions) = {}
    /\ (pc = "notify" /\ pc' = "list") =>
         \A key \in Managed \ new_sessions :
            Calls(cb', key, "appeared") = Calls(cb, key, "appeared")

\* the evaluation of the registered live session whose transcript ends with
\* an AskUserQuestion tool call
C2_AskStep ==
    Detects =>
      LET o == Head(todo)
          key == objs[o].tmux_session_name
      IN (Registered(o) /\ key \in host /\ log[key] = AskLog) =>
           IF objs[o].state = WORKING
           THEN /\ objs'[o].state = WAITING_INPUT
                /\ cb' = Append(cb, [key |-> key, kind |-> "transition"])
           ELSE objs[o].state = WAITING_INPUT => (cb' = cb /\ objs'[o] = objs[o])

\* C2: end to end, with no other matching host session: a successful
\* create_session("a") leaves the registry with exactly one session, named
\* "a", host name prefix + "a", state WORKING; once its transcript's last
\* assistant record holds an AskUserQuestion tool call, a poll cycle begun
\* after that sets the state to WAITING_INPUT and invokes the callback exactly
\* once with that session, and cycles over the unchanged transcript invoke
\* no further callback.
C2_EndToEnd == [][C2_CreateStep /\ C2_NoAppeared /\ C2_AskStep]_vars

\* the created session has just been moved to WAITING_INPUT with one callback
C2_Witness ==
    /\ pc = "check"
    /\ Len(sessions) = 1
    /\ todo = <<sessions[1].obj>>
    /\ objs[sessions[1].obj] =
         [name |-> <<"a">>, tmux_session_name |-> SESSION_PREFIX \o <<"a">>,
          state |-> WAITING_INPUT, working_directory |-> CallerDir,
          ttyd_port |-> 0, ttyd_pid |-> 0,
          last_output |-> <<>>]
    /\ log[SESSION_PREFIX \o <<"a">>] = AskLog
    /\ cb = <<[key |-> SESSION_PREFIX \o <<"a">>, kind |-> "transition"]>>

\* ---------------------------------------------------------------------- C3
\* C3 (as stated): within one poll cycle the callback is invoked at most once
\* for any single session, the "appeared" callback of a session discovered by
\* that cycle's sync and its state-change callback counted together.
C3_AtMostOneCallback ==
    \A key \in Managed :
       Cardinality({i \in 1..Len(cb) : cb[i].key = key}) <= 1

\* ---------------------------------------------------------------------- C4
\* no callback is delivered before sync_sessions has returned, and every
\* "appeared" callback of a cycle precedes its other callbacks
C4_Order ==
    /\ pc \in {"remove", "notify"} => cb = <<>>
    /\ \A i, j \in 1..Len(cb) :
          (i < j /\ cb[j].kind = "appeared") => cb[i].kind = "appeared"

\* C4: within one poll cycle sync_sessions runs first, then one "appeared"
\* callback is delivered for every discovered name that is still registered,
\* and only after all of those are state-transition callbacks delivered.
C4_AppearedFirst ==
    [][/\ (pc = "notify" /\ pc' = "list") =>
            /\ \A key \in Managed :
                  Calls(cb', key, "appeared") =
                    IF key \in new_sessions \cap Keys(sessions) THEN 1 ELSE 0
            /\ Len(cb') = Cardinality(new_sessions \cap Keys(sessions))
       /\ (pc = "remove" /\ pc' = "list") => (new_sessions = {} /\ cb' = <<>>)
       /\ C4_Order']_vars

\* a cycle that discovered one session has called back for it and then for
\* the transition of a session registered before
C4_Witness ==
    /\ Len(cb) = 2
    /\ cb[1].kind = "appeared"
    /\ cb[2].kind = "transition"
    /\ cb[1].key # cb[2].key

\* ---------------------------------------------------------------------- C5
\* C5 (as stated): in every reachable state no session present in the registry
\* has state STOPPED.
C5_NoStoppedRegistered ==
    \A i \in 1..Len(sessions) : objs[sessions[i].obj].state # STOPPED

\* ---------------------------------------------------------------------- C6
\* the registry or the poll thread's snapshot refers to object o
Referenced(o) == Registered(o) \/ o \in SeqRange(todo)

\* C6 (as stated): once a session object's state is STOPPED no later step of
\* any thread changes that object's state to IDLE, WORKING or WAITING_INPUT.
C6_StoppedTerminal ==
    [][\A o \in Ids :
          (Referenced(o) /\ objs[o].state = STOPPED) =>
             objs'[o].state \notin {IDLE, WORKING, WAITING_INPUT}]_vars

\* ---------------------------------------------------------------------- C7
\* the poll thread keeps running: _loop sleeps and polls until stop()
SpecLive == SpecConc /\ WF_vars(Poll)

\* sync_sessions has just returned
SyncReturns == pc = "remove" /\ pc' # "remove"

\* C7: while the poll loop runs, a registered session that the host stops
\* reporting and that does not reappear is eventually absent from the
\* registry (list_sessions and get_session no longer return it), and no
\* sync_sessions returns with a registered session the host does not report.
C7_GoneIsRemoved ==
    /\ \A k \in Managed :
          (k \in Keys(sessions) /\ k \notin host)
             ~> (k \notin Keys(sessions) \/ k \in host)
    /\ [][SyncReturns =>
            /\ \A k \in Keys(sessions') : k \in host
            /\ \A k \in Keys(sessions) \ Keys(sessions') :
                  objs'[ObjOf(sessions, k)].state = STOPPED]_vars

\* sync_sessions has just marked STOPPED and removed the session of a host
\* session that ended, ahead of the kill_session call that ended it
C7_Witness ==
    /\ pc \in {"notify", "list"}
    /\ cpc = "kill"
    /\ HostName(<<"a">>) \notin host
    /\ GetSession(HostName(<<"a">>)) = 0
    /\ \E o \in Ids : /\ objs[o].tmux_session_name = HostName(<<"a">>)
                      /\ objs[o].state = STOPPED
                      /\ ~Referenced(o)

\* ---------------------------------------------------------------------- C8
\* C8: one sync_sessions call sets the state of every registered session the
\* host no longer reports to STOPPED and removes it from the registry; every
\* session whose host session still exists stays registered, the same object
\* with its state unchanged, in discovery and in the removal pass.
C8_SyncRemovesGone ==
    [][/\ SyncReturns =>
            \A k \in Keys(sessions) :
               LET o == ObjOf(sessions, k) IN
               IF k \in host
               THEN /\ k \in Keys(sessions')
                    /\ ObjOf(sessions', k) = o
                    /\ objs'[o] = objs[o]
               ELSE /\ k \notin Keys(sessions')
                    /\ o \notin SeqRange(ListSessions')
                    /\ objs'[o].state = STOPPED
       /\ (pc = "sleep" /\ pc' = "remove") =>
            \A k \in Keys(sessions) :
               /\ k \in Keys(sessions')
               /\ ObjOf(sessions', k) = ObjOf(sessions, k)
               /\ objs'[ObjOf(sessions, k)] = objs[ObjOf(sessions, k)]]_vars

\* a sync has just removed session a, left STOPPED, and kept session b, whose
\* host session exists, in its IDLE state
C8_Witness ==
    /\ pc \in {"notify", "list"}
    /\ host = {HostName(<<"b">>), Foreign}
    /\ Keys(sessions) = {HostName(<<"b">>)}
    /\ objs[ObjOf(sessions, HostName(<<"b">>))].state = IDLE
    /\ \E o \in Ids : /\ objs[o].tmux_session_name = HostName(<<"a">>)
                      /\ objs[o].state = STOPPED
                      /\ ~Registered(o)

\* ---------------------------------------------------------------------- C9
\* the host sessions whose name is the prefix followed by a project name
Matching == {n \in host : \E q \in PROJECTS : n = SESSION_PREFIX \o q}

C10_KeysMatchHost ==
    [][(SyncReturns /\ syncStable /\ syncQuiet /\ hostUp) =>
          Keys(sessions') = Matching']_vars

\* C10 (as stated): the same after any sync_sessions that completes while the
\* host's session set does not change and the host is reachable
C10_Original ==
    [][(SyncReturns /\ syncStable /\ hostUp) => Keys(sessions') = Matching']_vars

\* a sync has just completed undisturbed while a kill_session call was between
\* its host step and its registry step: the registry has the host's session
C10_Witness ==
    /\ pc \in {"notify", "list"}
    /\ cpc = "kill"
    /\ host = {HostName(<<"a">>), Foreign}
    /\ Keys(sessions) = {HostName(<<"a">>)}

\* --------------------------------------------------------------------- C11
\* C11 (as stated): when the host's enumeration raises during sync_sessions
\* the registry is left unchanged: no session is removed and no session's
\* state is changed.
C11_SyncFailureKeepsRegistry ==
    [][((pc = "sleep" /\ pc' = "remove") \/ SyncReturns) /\ ~hostUp =>
          /\ sessions' = sessions
          /\ \A k \in Keys(sessions) :
                objs'[ObjOf(sessions, k)].state = objs[ObjOf(sessions, k)].state]_vars

\* --------------------------------------------------------------------- C12
\* C12 (as stated): a session for which no transcript is found and whose
\* pane cannot be captured keeps its stored state in that cycle, and no
\* callback is invoked for it.
C12_UnclassifiedKeepsState ==
    [][Detects =>
         LET o == Head(todo)
             key == objs[o].tmux_session_name
         IN (~log[key].found /\ ~FindTmuxSession(key)) =>
               (objs'[o].state = objs[o].state /\ cb' = cb)]_vars

\* --------------------------------------------------------------------- C13
\* C13 (as stated): detection never raises to the poll cycle: whatever fails
\* while the transcript is resolved or read, the session gets a defined
\* state and the loop goes on to the remaining sessions of the cycle.
C13_DetectionNeverRaises ==
    [][pc = "detect" => (pc' \in {"detect", "check"} /\ todo' = todo)]_vars

\* --------------------------------------------------------------------- C14
\* the last record of t that is a user or an assistant turn, NoTurn without one
NoTurn == [type |-> None, content |-> <<>>]

RECURSIVE LastTurn(_)
LastTurn(t) ==
    IF t = <<>> THEN NoTurn
    ELSE IF t[Len(t)].type \in {"user", "assistant"} THEN t[Len(t)]
    ELSE LastTurn(SubSeq(t, 1, Len(t) - 1))

HasBlock(rec, n) == \E i \in DOMAIN rec.content : rec.content[i] = ToolUse(n)

\* the classification the specification gives for a record sequence
Tier1Expected(t) ==
    LET r == LastTurn(t)
    IN CASE r = NoTurn -> IDLE
         [] r.type = "user" -> WORKING
         [] r.type = "assistant" /\ HasBlock(r, "AskUserQuestion") -> WAITING_INPUT
         [] r.type = "assistant" /\ ~HasBlock(r, "AskUserQuestion")
              /\ HasBlock(r, "Task") -> WORKING
         [] OTHER -> IDLE

\* C14: whenever a poll cycle classifies a session whose transcript was
\* resolved and read, the session's state afterwards is decided by the last
\* user or assistant record alone: user gives WORKING; assistant with an
\* AskUserQuestion block gives WAITING_INPUT, also next to a Task block;
\* assistant with a Task block and no AskUserQuestion block gives WORKING;
\* assistant with neither gives IDLE; no user or assistant record gives IDLE.
\* Records of other types and unparsable lines do not count.
C14_Tier1Classification ==
    [][Detects =>
         LET o == Head(todo)
             key == objs[o].tmux_session_name
         IN log[key].found => objs'[o].state = Tier1Expected(log[key].records)]_vars

\* a session was classified WAITING_INPUT from an assistant record that holds
\* both a Task and an AskUserQuestion block and is followed by an ignored line
C14_Witness ==
    /\ pc = "check"
    /\ todo # <<>>
    /\ Head(todo) # 0
    /\ LET t == log[objs[Head(todo)].tmux_session_name].records
       IN /\ Len(t) = 3
          /\ t[2] = AssistantRec(<<ToolUse("Task"), ToolUse("AskUserQuestion")>>)
          /\ t[3] = BadLine
    /\ objs[Head(todo)].state = WAITING_INPUT

\* --------------------------------------------------------------------- C15
Solid(line) == \E i \in 1..Len(line) : ~IsSpace(line[i])

\* the line without the white space around it
Core(line) ==
    LET at == {i \in 1..Len(line) : ~IsSpace(line[i])}
    IN IF at = {} THEN <<>>
       ELSE SubSeq(line, CHOOSE i \in at : \A j \in at : i <= j, MaxOf(at))

LooksLikeQuestion(line) ==
    \/ \E p \in CHOICE_PREFIXES : StartsWith(Core(line), p)
    \/ /\ \E i \in 1..Len(line) : line[i] = "?"
       /\ Core(line)[Len(Core(line))] = "?"

\* the classification the specification gives for a captured output: the
\* window is the last eight lines up to the nearest non-blank line from the
\* bottom, and does not reach above the first non-blank line
Tier2Expected(output) ==
    LET ls == SplitLines(output, <<>>)
        solid == {i \in 1..Len(ls) : Solid(ls[i])}
    IN IF solid = {} THEN WORKING
       ELSE LET last == MaxOf(solid)
                window == {i \in 1..last : i > last - 8 /\ \E j \in solid : j <= i}
            IN IF \E m \in IDLE_PROMPT_MARKERS : EndsWith(Core(ls[last]), m) THEN IDLE
               ELSE IF \E i \in window : Solid(ls[i]) /\ LooksLikeQuestion(ls[i])
                    THEN WAITING_INPUT
               ELSE WORKING

\* C15: whenever a poll cycle classifies a session without a transcript
\* from its captured pane, the session's state afterwards is WORKING for
\* empty or white-space output; otherwise IDLE when the nearest non-blank
\* line from the bottom ends with an idle-prompt marker (no other line is
\* looked at for markers); otherwise WAITING_INPUT when a line of the tail
\* window begins with a choice prefix or holds a question keyword and ends
\* with "?"; otherwise WORKING. It is never ERROR or STOPPED.
C15_Tier2Classification ==
    [][Detects =>
         LET o == Head(todo)
             key == objs[o].tmux_session_name
         IN (~log[key].found /\ FindTmuxSession(key)) =>
               /\ objs'[o].state = Tier2Expected(pane[key])
               /\ objs'[o].state \notin {ERROR, STOPPED}]_vars

\* a session was classified WORKING from a pane whose window holds a prompt
\* marker on an earlier line and plain text on the last one
C15_Witness ==
    /\ pc = "check"
    /\ todo # <<>>
    /\ Head(todo) # 0
    /\ ~log[objs[Head(todo)].tmux_session_name].found
    /\ pane[objs[Head(todo)].tmux_session_name]
         = Join(<<<<"$">>>> \o [i \in 1..6 |-> TextLine] \o <<TextLine>>)
    /\ objs[Head(todo)].state = WORKING

\* --------------------------------------------------------------------- C16
\* C16: whenever the evaluation loop of a poll cycle classifies a session
\* whose transcript was resolved and read, the session's state afterwards is
\* the Tier-1 result, whatever its pane shows: the pane is classified only
\* for a session without a transcript.
C16_Tier1Authoritative ==
    [][Detects =>
         LET o == Head(todo)
             key == objs[o].tmux_session_name
         IN log[key].found => objs'[o].state = Tier1Expected(log[key].records)]_vars

\* a session whose pane shows an idle prompt and whose transcript ends with a
\* question was classified WAITING_INPUT
C16_Witness ==
    /\ pc = "check"
    /\ todo # <<>>
    /\ Head(todo) # 0
    /\ LET key == objs[Head(todo)].tmux_session_name
       IN /\ log[key] = AskLog
          /\ pane[key] = PromptPane
          /\ key \in host
          /\ DetectStateFromOutput(pane[key]) = IDLE
    /\ objs[Head(todo)].state = WAITING_INPUT

\* --------------------------------------------------------------------- C17
\* the step is one of caller c's call, leaving the position `where`
Leaves(c, where) == spc[c] = At(where) /\ spc'[c] # spc[c]

\* C17: the coordinator starts STOPPED with no loop thread. start() while
\* STOPPED sets RUNNING and spawns one loop thread; start() while RUNNING
\* returns at once and changes nothing, so no second loop; stop() sets
\* STOPPED; stop() while STOPPED with no thread returns at once and changes
\* nothing. A thread begins _loop only through start(), so no cycle runs
\* before the first start().
C17_StartStop ==
    /\ running = FALSE /\ thread = 0 /\ \A t \in Threads : lpc[t] = "none"
    /\ [][/\ \A c \in Callers :
               /\ Leaves(c, "start") /\ running =>
                     spc'[c] = Idle /\ UNCHANGED <<running, thread, lpc>>
               /\ Leaves(c, "start") /\ ~running => spc'[c] = At("set")
               /\ Leaves(c, "set") => running' /\ spc'[c] = At("spawn")
               /\ Leaves(c, "spawn") =>
                     /\ spc'[c] = Idle
                     /\ \E t \in Threads :
                           /\ ~Live(t) /\ thread' = t /\ lpc'[t] = "test"
                           /\ \A u \in Threads \ {t} : lpc'[u] = lpc[u]
               /\ Leaves(c, "stop") => ~running' /\ lpc' = lpc
               /\ Leaves(c, "stop") /\ ~running /\ thread = 0 =>
                     spc'[c] = Idle /\ UNCHANGED <<running, thread, lpc>>
          /\ \A t \in Threads :
               ~Live(t) /\ lpc'[t] # lpc[t] =>
                  \E c \in Callers : Leaves(c, "spawn")]_vars

\* the coordinator is RUNNING, its thread is inside a cycle, and another
\* start() has been called
C17_Witness ==
    /\ running
    /\ thread # 0
    /\ lpc[thread] = "poll"
    /\ {t \in Threads : Live(t)} = {thread}
    /\ \E c \in Callers : spc[c] = At("start")

\* --------------------------------------------------------------------- C18
\* C18 (as stated): whatever start() and stop() calls were made, from one
\* thread or two, at most one thread runs the poll loop.
C18_AtMostOneLoop == Cardinality({t \in Threads : Live(t)}) <= 1

\* --------------------------------------------------------------------- C19
\* C19: stop() clears the flag and returns after its bounded wait. No thread
\* begins a cycle unless it found the flag set at its loop test, so a thread
\* that runs while the coordinator is STOPPED finishes the cycle in flight
\* and begins no other; unless a start() sets the flag again, the thread
\* terminates.
C19_StopTerminates ==
    /\ [][\A t \in Threads : lpc'[t] = "poll" /\ lpc[t] # "poll" => running]_vars
    /\ [][\A c \in Callers : Leaves(c, "stop") => ~running']_vars
    /\ \A c \in Callers : (spc[c].at = "join") ~> (spc[c] = Idle)
    /\ \A t \in Threads : (~running /\ Live(t)) ~> (running \/ ~Live(t))

\* stop() has returned, the coordinator is STOPPED and the thread it
\* stopped has terminated
C19_Witness ==
    /\ ~running
    /\ thread = 0
    /\ \A c \in Callers : spc[c] = Idle
    /\ \E t \in Threads : lpc[t] = "done"
    /\ \A t \in Threads : ~Live(t)

\* --------------------------------------------------------------------- C20
\* the positions of a cycle that runs without an exception
InCycle == pc \in {"sleep", "remove", "notify", "list", "check", "detect"}

\* C20: an exception that leaves a poll cycle, raised by detection or by a
\* callback, is caught at the cycle boundary: the thread goes from the
\* handler to its sleep and the next cycle begins.
C20_LoopSurvivesException ==
    /\ [][InCycle /\ ~InCycle' => pc' = "caught"]_vars
    /\ [][~InCycle => (pc' = pc \/ pc' = "sleep")]_vars
    /\ ~InCycle ~> (pc = "remove")

\* an exception raised after a callback of the cycle was made has been caught
C20_Witness == pc = "caught" /\ cb # <<>>

\* --------------------------------------------------------------------- C21
\* the registered sessions and what their objects hold are as they were
RegistryUntouched ==
    /\ sessions' = sessions
    /\ \A k \in Keys(sessions) : objs'[ObjOf(sessions, k)] = objs[ObjOf(sessions, k)]

\* C21: a create() goes on to register a session only when the host could
\* create it; when the host has a session of that name or does not answer,
\* the call ends with the host's exception at once (no second attempt),
\* no registry entry is added, and an entry of that name is neither
\* replaced nor changed.
C21_CreateFailureKeepsRegistry ==
    [][\A c \in Callers :
         /\ tpc[c].at = "idle" /\ tpc'[c].op = "create" =>
               /\ tpc'[c].name \notin host /\ hostUp
               /\ RegistryUntouched
         /\ tpc[c].at = "idle" /\ tpc'[c] # tpc[c] /\ tpc'[c].ret = "raised" =>
               /\ tpc'[c].at = "idle"
               /\ host' = host
               /\ RegistryUntouched]_vars

\* a create() for a name that is registered and alive at the host has ended
\* with the host's exception
C21_Witness ==
    \E c \in Callers :
       /\ tpc[c].at = "idle"
       /\ tpc[c].ret = "raised"
       /\ tpc[c].name \in Keys(sessions)
       /\ tpc[c].name \in host
       /\ hostUp

\* --------------------------------------------------------------------- C22
\* C22 (as stated): kill() stops the bridge, then terminates the host
\* session, then removes the entry. It goes on to the removal, and to
\* returning true, only when the host session has been terminated; a kill
\* that returns false leaves the entry registered.
C22_KillTrueOnlyWhenDone ==
    [][\A c \in Callers :
         /\ InCall(c, "kill", "host") /\ tpc'[c].at = "remove" =>
               tpc[c].name \notin host'
         /\ InCall(c, "kill", "host") /\ tpc'[c].ret = "false" =>
               RegistryUntouched]_vars

\* --------------------------------------------------------------------- C23
KeyList(sess) == [i \in 1..Len(sess) |-> sess[i].key]

\* C23: killAll() takes the names registered when it starts and attempts a
\* kill for each of them in turn: a kill that fails is followed by the kill
\* of the next name. When it ends without a failed kill, nothing having
\* added a session, the registry is empty.
C23_KillAllSweeps ==
    [][\A c \in Callers :
         /\ tpc[c].at = "idle" /\ tpc'[c].op = "killall" =>
               <<tpc'[c].name>> \o tpc'[c].rest = KeyList(sessions)
         /\ tpc[c].op = "killall" /\ tpc[c].rest # <<>>
               /\ (tpc'[c].name # tpc[c].name \/ tpc'[c].rest # tpc[c].rest
                      \/ tpc'[c].op # "killall") =>
               /\ tpc[c].at \in {"host", "remove"}
               /\ tpc'[c].op = "killall"
               /\ tpc'[c].at = "stop"
               /\ tpc'[c].name = Head(tpc[c].rest)
               /\ tpc'[c].rest = Tail(tpc[c].rest)
         /\ tpc[c].op = "killall" /\ tpc'[c].op = "none" =>
               /\ tpc[c].rest = <<>>
               /\ tpc'[c].ret = "done" => sessions' = <<>>]_vars

\* a killAll() over two sessions has ended: the kill of the first one failed,
\* the second one was killed all the same
C23_Witness ==
    \E c \in Callers :
       /\ tpc[c].at = "idle"
       /\ tpc[c].ret = "failed"
       /\ tpc[c].name = HostName(<<"b">>)
       /\ KeyList(sessions) = <<HostName(<<"a">>)>>
       /\ \A d \in Callers \ {c} : tpc[d] = NoCall

\* --------------------------------------------------------------------- C24
\* the bridge recorded for a name: <<0, 0>> when there is none, or no entry
Bridge(n) ==
    IF n \in Keys(sessions)
    THEN <<objs[ObjOf(sessions, n)].ttyd_port, objs[ObjOf(sessions, n)].ttyd_pid>>
    ELSE <<0, 0>>

\* C24: when a stopRemoteAccess call returns, the session has neither port
\* nor process handle; a call for a session without a bridge, which a second
\* call in a row is, or for an unknown name returns at once without raising,
\* signals no process and changes nothing.
C24_StopIdempotent ==
    [][\A c \in Callers :
         /\ tpc[c].op = "stop" /\ tpc'[c].op = "none" =>
               /\ tpc'[c].ret = "none"
               /\ tpc[c].name \in Keys(sessions') =>
                     objs'[ObjOf(sessions', tpc[c].name)].ttyd_port = 0
                     /\ objs'[ObjOf(sessions', tpc[c].name)].ttyd_pid = 0
         /\ InCall(c, "stop", "stop") /\ Bridge(tpc[c].name)[2] = 0
               /\ tpc'[c] # tpc[c] =>
               /\ tpc'[c].op = "none"
               /\ tpc'[c].ret = "none"
               /\ procs' = procs
               /\ RegistryUntouched]_vars

\* a stop for claude_a has returned, the bridge it signalled is gone and the
\* fields are clear, and a second stop for claude_a has been called
C24_Witness ==
    \E c, d \in Callers :
       /\ InCall(c, "stop", "stop")
       /\ tpc[c].name = HostName(<<"a">>)
       /\ tpc[d].at = "idle" /\ tpc[d].ret = "none" /\ tpc[d].name = HostName(<<"a">>)
       /\ Bridge(HostName(<<"a">>)) = <<0, 0>>
       /\ HostName(<<"a">>) \in Keys(sessions)
       /\ Len(procs) = 1
       /\ ~procs[1].alive

\* --------------------------------------------------------------------- C25
\* C25 (as stated): however many startRemoteAccess calls are made for a
\* session, one after another or at once, at most one bridge process that
\* was spawned for it is running.
C25_AtMostOneBridge ==
    \A n \in Managed :
       Cardinality({i \in 1..Len(procs) : procs[i].session = n /\ procs[i].alive}) <= 1

\* --------------------------------------------------------------------- C26
\* the call of thread c holds a port it took from the counter
HoldsAutoPort(c) ==
    /\ tpc[c].op = "start"
    /\ tpc[c].at \in {"load", "store", "spawn"}
    /\ tpc[c].port # GivenPort

\* C26 (as stated): no two startRemoteAccess calls for different sessions,
\* one after another or at once, are given the same port by the counter.
C26_AutoPortsDistinct ==
    /\ \A c, d \in Callers :
          /\ HoldsAutoPort(c) /\ HoldsAutoPort(d)
          /\ tpc[c].name # tpc[d].name
          => tpc[c].port # tpc[d].port
    /\ \A c \in Callers, i \in 1..Len(procs) :
          HoldsAutoPort(c) /\ procs[i].session # tpc[c].name =>
             tpc[c].port # procs[i].port
    /\ \A i, j \in 1..Len(procs) :
          procs[i].session # procs[j].session /\ procs[i].port = procs[j].port =>
             procs[i].port = GivenPort

\* --------------------------------------------------------------------- C27
\* C27: in every state each registered session has both a port and a process
\* handle or neither; a startRemoteAccess call that finds the name unknown, or
\* whose bridge does not start, returns None without raising and leaves every
\* registered session, its bridge fields included, as it was.
C27_BridgePairAllOrNothing ==
    /\ [](\A n \in Keys(sessions) : (Bridge(n)[1] = 0) <=> (Bridge(n)[2] = 0))
    /\ [][\A c \in Callers :
            /\ tpc[c].op = "start" /\ tpc'[c].op = "none" =>
                  tpc'[c].ret \in {"none", "port"}
            /\ InCall(c, "start", "spawn") /\ tpc'[c].op = "none" /\ procs' = procs =>
                  /\ tpc'[c].ret = "none"
                  /\ RegistryUntouched
            /\ tpc[c].at = "idle" /\ tpc'[c].at = "idle" /\ tpc'[c] # tpc[c] =>
                  /\ tpc'[c].name \notin Keys(sessions) => tpc'[c].ret = "none"
                  /\ RegistryUntouched]_vars

\* the only call made so far, a start for the registered claude_a with a port
\* from the counter, has returned None because the bridge did not start, and
\* claude_a has neither port nor process handle
C27_Witness ==
    \E c, d \in Callers :
       /\ c # d
       /\ tpc[d] = NoCall
       /\ tpc[c].at = "idle" /\ tpc[c].ret = "none"
       /\ tpc[c].name = HostName(<<"a">>)
       /\ HostName(<<"a">>) \in Keys(sessions)
       /\ next_ttyd_port = TTYD_BASE_PORT + 1
       /\ procs = <<>>
       /\ Bridge(HostName(<<"a">>)) = <<0, 0>>

\* --------------------------------------------------------------------- C28
\* C28 (as stated): the poll thread holds the registry lock whenever it tests
\* a name for membership in the session map or stores an entry in it.
C28_MapAccessUnderLock ==
    /\ pc = "test" /\ scan # <<>> /\ HasPrefix(Head(scan)) => lock = "poll"
    /\ pc = "insert" => lock = "poll"

\* --------------------------------------------------------------------- C29
\* C29 (as stated): the poll thread never enumerates the host's sessions
\* while it holds the registry lock.
C29_NoHostCallUnderLock == lock = "poll" => pc # "find"

\* --------------------------------------------------------------------- C30
\* the state of every registered session and the registry's entries are as
\* they were
SameStates ==
    /\ sessions' = sessions
    /\ \A k \in Keys(sessions) :
          objs'[ObjOf(sessions, k)].state = objs[ObjOf(sessions, k)].state

\* C30: no step of sendCommand, sendKeys, captureOutput, list, get, exists,
\* startRemoteAccess or stopRemoteAccess changes the state field of a session
\* or adds or removes a registry entry.
C30_QueriesKeepStates == [][Queries \/ UiBridges => SameStates]_vars

\* claude_a was discovered idle; keys were sent to it since, its pane now
\* asks for a choice, and a start has recorded a bridge for it and returned
\* the port: it is still registered as idle
C30_Witness ==
    /\ tpc["ui"].at = "idle" /\ tpc["ui"].ret = "port"
    /\ tpc["ui"].name = HostName(<<"a">>)
    /\ Bridge(HostName(<<"a">>))[2] # 0
    /\ objs[ObjOf(sessions, HostName(<<"a">>))].state = IDLE
    /\ pane[HostName(<<"a">>)] = ChoicePane

\* --------------------------------------------------------------------- C31
\* C31 (as stated): no call of sendCommand, sendKeys or captureOutput ever
\* raises to its caller; a host call that fails ends the call with False or
\* with the empty string.
C31_InteractionNeverRaises == \A c \in Callers : tpc[c].ret # "raised"

\* --------------------------------------------------------------------- C32
\* C32: a session adopted by discovery is stored with the state the Tier-2
\* classification gives for the output captured from its pane, and WORKING
\* when the pane cannot be read; that state is IDLE, WORKING or
\* WAITING_INPUT; its working directory is the one the host reports, or
\* empty when the host cannot report it.
C32_DiscoveredInitialState ==
    [][pc = "insert" /\ pc' = "test" =>
         LET name == Head(scan)
             info == objs'[ObjOf(sessions', name)]
         IN /\ name \in Keys(sessions')
            /\ info.state \in {IDLE, WORKING, WAITING_INPUT}
            /\ info.state = IF FindTmuxSession(name) THEN Tier2Expected(pane[name])
                            ELSE WORKING
            /\ info.working_directory = IF FindTmuxSession(name) THEN PaneDir ELSE <<>>]_vars

\* discovery has just adopted claude_a, whose pane shows a numbered choice,
\* as waiting for input
C32_Witness ==
    /\ pc = "test"
    /\ HostName(<<"a">>) \in new_sessions
    /\ HostName(<<"a">>) \in Keys(sessions)
    /\ pane[HostName(<<"a">>)] = ChoicePane
    /\ objs[ObjOf(sessions, HostName(<<"a">>))].state = WAITING_INPUT
    /\ objs[ObjOf(sessions, HostName(<<"a">>))].working_directory = PaneDir

\* --------------------------------------------------------------------- C34
\* C34 (as stated): a poll that classifies a session from its captured
\* output, because no transcript is found, leaves the session's last_output
\* equal to the output it captured.
C34_FallbackStoresOutput ==
    [][Detects =>
         LET o == Head(todo)
             key == objs[o].tmux_session_name
         IN (~log[key].found /\ FindTmuxSession(key)) =>
               objs'[o].last_output = CaptureOutput(key, pane[key])]_vars

\* --------------------------------------------------------------------- C33
\* C33 (as stated): a lookup returns the cached path without a scan only
\* while the path exists with a size not below the cached one, and it then
\* stores the current size; a cached path found missing or shrunk is not
\* returned by a later lookup unless a scan has selected it again.
C33_CursorValidity ==
    [][(\E o \in Ids : FindTranscript(o)) =>
         LET key == look'.key
         IN /\ ~look'.scanned =>
                 /\ CacheValid(cache[key])
                 /\ look'.path = cache[key].path
                 /\ cache'[key] = Entry(look'.path, files[look'.path].size)
                 /\ look'.path \notin look'.stale[key]
            /\ (cache[key] # NoEntry /\ ~CacheValid(cache[key])) => look'.scanned]_vars

\* --------------------------------------------------------------------- C35
\* the session state that a live state of the dashboard stands for
StateOf(live) ==
    CASE live = "working" -> WORKING
      [] live = "choice" -> WAITING_INPUT
      [] live = "idle" -> IDLE

\* C35 (as stated): whenever a poll cycle classifies a session from its
\* transcript, the state it stores is the one the dashboard's live state for
\* the same records stands for, whatever the type of the final record.
C35_MonitorMatchesDashboard ==
    [][Detects =>
         LET o == Head(todo)
             key == objs[o].tmux_session_name
         IN log[key].found =>
               objs'[o].state = StateOf(LiveState(log[key].records))]_vars

\* --------------------------------------------------------------------- C36
\* C36: every registry entry is stored under its object's host session name,
\* that name is the prefix followed by the session's name, and no two
\* entries share a key, a host session name or a name.
C36_RegistryKeys ==
    /\ \A i \in 1..Len(sessions) :
          LET info == objs[sessions[i].obj]
          IN /\ sessions[i].key = info.tmux_session_name
             /\ info.tmux_session_name = SESSION_PREFIX \o info.name
    /\ \A i, j \in 1..Len(sessions) :
          i # j => /\ sessions[i].key # sessions[j].key
                   /\ objs[sessions[i].obj].tmux_session_name
                         # objs[sessions[j].obj].tmux_session_name
                   /\ objs[sessions[i].obj].name # objs[sessions[j].obj].name

\* two sessions are registered, one stored by create_session and one
\* adopted by discovery
C36_Witness ==
    /\ Len(sessions) = 2
    /\ \E i, j \in 1..2 :
          /\ objs[sessions[i].obj].working_directory = CallerDir
          /\ objs[sessions[j].obj].working_directory = PaneDir

\* --------------------------------------------------------------------- C37
\* C37: no session object, registered or held by a thread, is ever in the
\* ERROR state: its state is IDLE, WORKING, WAITING_INPUT or STOPPED.
C37_ErrorUnreachable ==
    \A o \in Ids : objs[o] # NoObj =>
       objs[o].state \in {IDLE, WORKING, WAITING_INPUT, STOPPED}

\* the poll thread holds a session it has marked STOPPED while the registry
\* holds one that is idle or waiting for input
C37_Witness ==
    \E o, q \in Ids :
       /\ objs[o] # NoObj /\ objs[o].state = STOPPED
       /\ Registered(q) /\ objs[q].state \in {IDLE, WAITING_INPUT}
       /\ pc = "check"

\* --------------------------------------------------------------------- C38
\* C38 (as stated): whenever a session that has a bridge recorded is removed
\* from the registry, by kill_session or by sync_sessions, the recorded
\* bridge process has been signalled, or has ended, by the end of that step.
C38_NoOrphanBridge ==
    [][\A k \in Keys(sessions) \ Keys(sessions') :
          Bridge(k)[2] # 0 => ~procs'[Bridge(k)[2]].alive]_vars

\* --------------------------------------------------------------------- C39
\* the host reports session n, n is registered and what it shows classifies as x
SettledAt(n, x) ==
    /\ FindTmuxSession(n)
    /\ n \in Keys(sessions)
    /\ Detect(n, Shown(n)) = x

\* the registered session n is stored with state x
StoredAs(n, x) == n \in Keys(sessions) /\ objs[ObjOf(sessions, n)].state = x

\* C39 (as stated): while the poll thread runs, if from some point on a
\* registered session's host session stays alive and its evidence stays at
\* classification x, then from some later point on its stored state is x.
C39_EventuallyConsistent ==
    \A n \in CallerHosts, x \in {IDLE, WORKING, WAITING_INPUT} :
       <>[]SettledAt(n, x) => <>[]StoredAs(n, x)

\* --------------------------------------------------------------------- C40
\* the transcript at path p names the working directory of session object o
BoundTo(o, p) == files[p].cwd = objs[o].working_directory

\* C40 (as stated): a lookup for a registered session never returns the path
\* that was cached for a removed session of the same host name and another
\* working directory: with transcripts that only grow, every path a lookup
\* returns names the working directory of the session it is returned for.
C40_NoRebindAcrossRegistrations ==
    [][\A o \in Ids :
          (FindTranscript(o) /\ look'.path # "") => BoundTo(o, look'.path)]_vars

====
